---- MODULE Spec2Model ----
(***************************************************************************)
(* Deterministic commitment embedding of rust-lnpbp: the commit/verify     *)
(* traits (primitives/commit_verify.rs), the lockscript embedding          *)
(* (bp/dbc/lockscript.rs) and the taproot and txout compositions           *)
(* (bp/dbc/taproot.rs, bp/dbc/txout.rs), outpoint blinding (bp/blind.rs)   *)
(* and the strict encoding (paradigms/strict_encoding.rs).                 *)
(*                                                                         *)
(* Elliptic-curve points are the elements of the additive group Z_Order    *)
(* (the point k stands for k*G, 0 is the point at infinity).  A public     *)
(* key is a non-zero point.  A message is a number standing for its bytes. *)
(* A script is its abstract syntax tree: a record                          *)
(*   [kind, key, compressed, hash, subs]                                   *)
(* whose kind is "pk" (a public-key node, with the encoding it is stored   *)
(* in), "pk_h" (a public-key-hash node), a keyless leaf ("older",          *)
(* "sha256", ...), a combinator ("thresh", "and", "or") over subs, or      *)
(* "unparsable" for bytes the Miniscript parser rejects.                   *)
(***************************************************************************)
EXTENDS Integers, Sequences, FiniteSets, TLC

(* ------------------------------ bounds --------------------------------- *)
Order == 5          \* size of the point group
NumKeys == 2        \* public keys 1..NumKeys appear in containers and scripts
NumMsgs == 3        \* messages 1..NumMsgs
NumRoots == 2       \* taproot script roots 1..NumRoots
NumValues == 2      \* txout values 1..NumValues
MaxArity == 2       \* children of a combinator node
MaxSince == 2       \* calls counted after the one that is kept for comparison
MaxItems == 2       \* items of a Vec handed to the strict encoding
NumThreads == 2     \* calls of commit_embed running at the same time

Keys == 1..NumKeys
Points == 1..(Order - 1)
Msgs == 1..NumMsgs
Roots == 1..NumRoots
Values == 1..NumValues

(* ------------------------------ results -------------------------------- *)
Ok(v) == [ok |-> TRUE, val |-> v]
Err(e) == [ok |-> FALSE, err |-> e]
None == [kind |-> "none", ok |-> FALSE]

(* ------------------------- key-tweak commitment ------------------------ *)
\* The scalar derived from the key and the message (a keyed hash): any
\* value of the hash range, which is larger than the group order.
HashToScalar(pubkey, msg) == (3 * pubkey + 3 * msg + 1) % (Order + 1)

\* PubkeyCommitment::commit_to: P' = P + t*G; a scalar outside the group
\* order and a sum at infinity are hard failures.
PubkeyCommitment_commit_to(container, msg) ==
    LET t == HashToScalar(container, msg)
        sum == (container + t) % Order
    IN  IF t >= Order \/ sum = 0
        THEN Err("InvalidTweak")
        ELSE Ok([original |-> container, tweaked |-> sum])

\* bitcoin::PublicKey { compressed, key }.pubkey_hash(): the hash of the
\* key's serialization, which differs between the two encodings of a point.
pubkey_hash(key, compressed) == 2 * key + (IF compressed THEN 0 ELSE 1)

\* hashes that are the hash of no key (test data: dummy_hashes)
DummyHashes == {0}

(* ------------------------------ scripts -------------------------------- *)
Pk(key, compressed) ==
    [kind |-> "pk", key |-> key, compressed |-> compressed, hash |-> 0, subs |-> <<>>]
PkH(hash) ==
    [kind |-> "pk_h", key |-> 0, compressed |-> TRUE, hash |-> hash, subs |-> <<>>]
Leaf(kind) ==
    [kind |-> kind, key |-> 0, compressed |-> TRUE, hash |-> 0, subs |-> <<>>]
Comb(kind, subs) ==
    [kind |-> kind, key |-> 0, compressed |-> TRUE, hash |-> 0, subs |-> subs]

KeyLeaves == {Pk(k, c) : k \in Keys, c \in BOOLEAN}
HashLeaves == {PkH(pubkey_hash(k, c)) : k \in Keys, c \in BOOLEAN}
                  \cup {PkH(h) : h \in DummyHashes}
OtherLeaves == {Leaf("older"), Leaf("sha256")}
Leaves == KeyLeaves \cup HashLeaves \cup OtherLeaves

SeqsUpTo(S, n) == UNION {[1..k -> S] : k \in 2..n}

\* thresh(..) over leaves, and the shape of test_complex_scripts_unique_key:
\* or(thresh(a, b), and(c, older))
FlatScripts == {Comb("thresh", s) : s \in SeqsUpTo(Leaves, MaxArity)}
NestedScripts ==
    {Comb("or", <<Comb("thresh", <<a, b>>), Comb("and", <<c, Leaf("older")>>)>>) :
        a \in KeyLeaves, b \in KeyLeaves \cup HashLeaves, c \in KeyLeaves}
Scripts == Leaves \cup FlatScripts \cup NestedScripts \cup {Leaf("unparsable")}

(* ------------------------ lockscript embedding ------------------------- *)
\* Faulty variant: a counter that outlives the call.
StaleCell(previous) == previous

\* RefCell::new(0): the counters of a call start at zero, whatever an
\* earlier call left behind.
RefCell_new(previous) == 0

\* Faulty variant: only the first occurrence of the target is substituted.
FirstOnly_key_closure(cells, pubkey, ctx) ==
    [cells |-> [cells EXCEPT !.keys_count = @ + 1,
                             !.found = IF pubkey = ctx.pubkey THEN @ + 1 ELSE @],
     ret |-> IF pubkey = ctx.pubkey /\ cells.found = 0
             THEN ctx.tweaked_pk ELSE pubkey]

\* the closure called for every public-key node
key_closure(cells, pubkey, ctx) ==
    [cells |-> [cells EXCEPT !.keys_count = @ + 1,
                             !.found = IF pubkey = ctx.pubkey THEN @ + 1 ELSE @],
     ret |-> IF pubkey = ctx.pubkey THEN ctx.tweaked_pk ELSE pubkey]

\* Faulty variant: a matching hash is counted and handed back as it was.
Unreplaced_hash_closure(cells, hash, ctx) ==
    [cells |-> [cells EXCEPT !.hashes_count = @ + 1,
                             !.found = IF hash = ctx.original_hash THEN @ + 1 ELSE @],
     ret |-> hash]

\* the closure called for every public-key-hash node
hash_closure(cells, hash, ctx) ==
    [cells |-> [cells EXCEPT !.hashes_count = @ + 1,
                             !.found = IF hash = ctx.original_hash THEN @ + 1 ELSE @],
     ret |-> IF hash = ctx.original_hash THEN ctx.tweaked_hash ELSE hash]

\* LockScript::replace_pubkeys_and_hashes, after a successful parse: every
\* node of the tree is visited once, in order; a key node hands its point
\* to the key closure and a hash node its hash to the hash closure and
\* stores what the closure returns; the key that replaces a matching key
\* is stored compressed, every other node is left as it was.
RECURSIVE translate(_, _, _), translate_all(_, _, _)
translate(node, cells, ctx) ==
    CASE node.kind = "pk" ->
            LET r == key_closure(cells, node.key, ctx)
            IN  [node |-> IF r.cells.found > cells.found
                          THEN [node EXCEPT !.key = r.ret, !.compressed = TRUE]
                          ELSE [node EXCEPT !.key = r.ret],
                 cells |-> r.cells]
      [] node.kind = "pk_h" ->
            LET r == hash_closure(cells, node.hash, ctx)
            IN  [node |-> [node EXCEPT !.hash = r.ret], cells |-> r.cells]
      [] OTHER ->
            LET r == translate_all(node.subs, cells, ctx)
            IN  [node |-> [node EXCEPT !.subs = r.nodes], cells |-> r.cells]
translate_all(subs, cells, ctx) ==
    IF subs = <<>>
    THEN [nodes |-> <<>>, cells |-> cells]
    ELSE LET h == translate(Head(subs), cells, ctx)
             t == translate_all(Tail(subs), h.cells, ctx)
         IN  [nodes |-> <<h.node>> \o t.nodes, cells |-> t.cells]

replace_pubkeys_and_hashes(script, cells, ctx) ==
    IF script.kind = "unparsable"
    THEN [result |-> Err("LockscriptParserError"), cells |-> cells]
    ELSE LET r == translate(script, cells, ctx)
         IN  [result |-> Ok(r.node), cells |-> r.cells]

\* Faulty variants of the match below: the (0,0,0) arm missing; the hash
\* count deciding the second arm; the arms (0,_,_) and (0,0,_) swapped.
NoEmptyArm_classify(found, keys_count, hashes_count, lockscript) ==
    IF found = 0 /\ keys_count = 0
        THEN Err("LockscriptContainsUnknownHashesOnly")
    ELSE IF found = 0
        THEN Err("LockscriptKeyNotFound")
    ELSE Ok(lockscript)
HashesIgnored_classify(found, keys_count, hashes_count, lockscript) ==
    IF found = 0 /\ keys_count = 0 /\ hashes_count = 0
        THEN Err("LockscriptContainsNoKeysOrHashes")
    ELSE IF found = 0 /\ hashes_count > 0
        THEN Err("LockscriptContainsUnknownHashesOnly")
    ELSE IF found = 0
        THEN Err("LockscriptKeyNotFound")
    ELSE Ok(lockscript)
KeyNotFoundFirst_classify(found, keys_count, hashes_count, lockscript) ==
    IF found = 0 /\ keys_count = 0 /\ hashes_count = 0
        THEN Err("LockscriptContainsNoKeysOrHashes")
    ELSE IF found = 0
        THEN Err("LockscriptKeyNotFound")
    ELSE Ok(lockscript)

\* the match on (found, keys_count, hashes_count)
classify(found, keys_count, hashes_count, lockscript) ==
    IF found = 0 /\ keys_count = 0 /\ hashes_count = 0
        THEN Err("LockscriptContainsNoKeysOrHashes")
    ELSE IF found = 0 /\ keys_count = 0
        THEN Err("LockscriptContainsUnknownHashesOnly")
    ELSE IF found = 0
        THEN Err("LockscriptKeyNotFound")
    ELSE Ok(lockscript)

\* Faulty variant: the script is traversed and its counters matched before
\* the outcome of the tweak is looked at.
TraverseFirst_LockscriptCommitment_commit_embed(container, msg, cells) ==
    LET original_hash == pubkey_hash(container.pubkey, TRUE)
        tweak == PubkeyCommitment_commit_to(container.pubkey, msg)
        tweaked_pk == IF tweak.ok THEN tweak.val.tweaked ELSE container.pubkey
        fresh == [keys_count |-> RefCell_new(cells.keys_count),
                  hashes_count |-> RefCell_new(cells.hashes_count),
                  found |-> RefCell_new(cells.found)]
        ctx == [pubkey |-> container.pubkey,
                original_hash |-> original_hash,
                tweaked_pk |-> tweaked_pk,
                tweaked_hash |-> pubkey_hash(tweaked_pk, TRUE)]
        r == replace_pubkeys_and_hashes(container.script, fresh, ctx)
        m == classify(r.cells.found, r.cells.keys_count, r.cells.hashes_count,
                      r.result.val)
    IN  IF ~r.result.ok THEN [result |-> r.result, cells |-> r.cells]
        ELSE IF ~m.ok THEN [result |-> m, cells |-> r.cells]
        ELSE IF ~tweak.ok THEN [result |-> Err(tweak.err), cells |-> r.cells]
        ELSE [result |-> m, cells |-> r.cells]

\* LockscriptCommitment::commit_embed.  cells are the counters as the
\* previous call left them; the call returns its result and its counters.
LockscriptCommitment_commit_embed(container, msg, cells) ==
    LET original_hash == pubkey_hash(container.pubkey, TRUE)
        tweak == PubkeyCommitment_commit_to(container.pubkey, msg)
    IN  IF ~tweak.ok
        THEN [result |-> Err(tweak.err), cells |-> cells]
        ELSE
        LET tweaked_pk == tweak.val.tweaked
            tweaked_hash == pubkey_hash(tweaked_pk, TRUE)
            fresh == [keys_count |-> RefCell_new(cells.keys_count),
                      hashes_count |-> RefCell_new(cells.hashes_count),
                      found |-> RefCell_new(cells.found)]
            ctx == [pubkey |-> container.pubkey,
                    original_hash |-> original_hash,
                    tweaked_pk |-> tweaked_pk,
                    tweaked_hash |-> tweaked_hash]
            r == replace_pubkeys_and_hashes(container.script, fresh, ctx)
        IN  IF ~r.result.ok
            THEN [result |-> r.result, cells |-> r.cells]
            ELSE [result |-> classify(r.cells.found, r.cells.keys_count,
                                      r.cells.hashes_count, r.result.val),
                  cells |-> r.cells]

(* --------------------------- commit / verify --------------------------- *)
\* Faulty variants: the comparison inverted; an error taken for a match.
Inverted_recompute_and_compare(recomputed, self) ==
    IF recomputed.ok THEN recomputed.val # self ELSE FALSE
AcceptErr_recompute_and_compare(recomputed, self) ==
    IF recomputed.ok THEN recomputed.val = self ELSE TRUE

\* the match of the default reveal_verify: recompute, then compare
recompute_and_compare(recomputed, self) ==
    IF recomputed.ok THEN recomputed.val = self ELSE FALSE

\* The key commitment verified as an embedded commitment: its container is
\* the original key it stores, and the recomputed commitment must equal it.
PubkeyCommitment_reveal_verify(self, msg) ==
    recompute_and_compare(PubkeyCommitment_commit_to(self.original, msg), self)

(* ------------------------------- taproot ------------------------------- *)
TaprootContainers == [script_root : Roots, intermediate_key : Keys]
TaprootCommitments ==
    [script_root : Roots, pubkey_commitment : [original : Keys, tweaked : Points]]

\* Faulty variant: the recovered container carries the first script root.
DefaultRoot_TaprootCommitment_get_original_container(self) ==
    [script_root |-> 1,
     intermediate_key |-> self.pubkey_commitment.original]

\* Faulty variant: the tweaked key is handed back as the intermediate key.
TweakedKey_TaprootCommitment_get_original_container(self) ==
    [script_root |-> self.script_root,
     intermediate_key |-> self.pubkey_commitment.tweaked]

\* TaprootCommitment::get_original_container
TaprootCommitment_get_original_container(self) ==
    [script_root |-> self.script_root,
     intermediate_key |-> self.pubkey_commitment.original]

\* Faulty variant: the script root enters the key tweak.
RootTweak_TaprootCommitment_commit_to(container, msg) ==
    LET cmt == PubkeyCommitment_commit_to(container.intermediate_key,
                                          msg + container.script_root)
    IN  IF ~cmt.ok THEN Err(cmt.err)
        ELSE Ok([script_root |-> container.script_root,
                 pubkey_commitment |-> cmt.val])

\* Faulty variant: the key commitment's error is replaced by one of its own.
Wrapped_TaprootCommitment_commit_to(container, msg) ==
    LET cmt == PubkeyCommitment_commit_to(container.intermediate_key, msg)
    IN  IF ~cmt.ok THEN Err("TaprootError")
        ELSE Ok([script_root |-> container.script_root,
                 pubkey_commitment |-> cmt.val])

\* TaprootCommitment::commit_to
TaprootCommitment_commit_to(container, msg) ==
    LET cmt == PubkeyCommitment_commit_to(container.intermediate_key, msg)
    IN  IF ~cmt.ok THEN Err(cmt.err)
        ELSE Ok([script_root |-> container.script_root,
                 pubkey_commitment |-> cmt.val])

\* Faulty variant: only the script roots are compared.
RootOnly_TaprootCommitment_reveal_verify(self, msg) ==
    LET r == TaprootCommitment_commit_to(
                 TaprootCommitment_get_original_container(self), msg)
    IN  IF r.ok THEN r.val.script_root = self.script_root ELSE FALSE

\* EmbeddedCommitment::reveal_verify (the default), for TaprootCommitment
TaprootCommitment_reveal_verify(self, msg) ==
    recompute_and_compare(
        TaprootCommitment_commit_to(TaprootCommitment_get_original_container(self), msg),
        self)

(* ----------------------------- scriptPubkey ---------------------------- *)
KeyTemplates == {"bare-key", "key-hash", "witness-key-hash"}
ScriptTemplates == {"bare-script", "script-hash", "witness-script-hash"}
Templates == KeyTemplates \cup ScriptTemplates \cup {"non-standard"}

\* ScriptPubkeyCommitment::commit_embed: a key-bearing template delegates
\* to the key tweak, a script-bearing one to the lockscript embedding, any
\* other template is rejected.  The commitment keeps the template, what
\* the template now holds, and the container it was made from.
ScriptPubkeyCommitment_commit_embed(container, msg, cells) ==
    IF container.template \in KeyTemplates
    THEN LET cmt == PubkeyCommitment_commit_to(container.pubkey, msg)
         IN  [result |->
                IF ~cmt.ok THEN Err(cmt.err)
                ELSE Ok([template |-> container.template,
                         holds |-> IF container.template = "bare-key"
                                   THEN Pk(cmt.val.tweaked, TRUE)
                                   ELSE PkH(pubkey_hash(cmt.val.tweaked, TRUE)),
                         original |-> container]),
              cells |-> cells]
    ELSE IF container.template \in ScriptTemplates
    THEN LET r == LockscriptCommitment_commit_embed(
                      [script |-> container.script, pubkey |-> container.pubkey],
                      msg, cells)
         IN  [result |->
                IF ~r.result.ok THEN r.result
                ELSE Ok([template |-> container.template,
                         holds |-> r.result.val,
                         original |-> container]),
              cells |-> r.cells]
    ELSE [result |-> Err("UnsupportedTemplate"), cells |-> cells]

ScriptPubkeyCommitment_container(self) == self.original

(* -------------------------------- txout -------------------------------- *)
TxoutCommitment_container(self) ==
    [value |-> self.value,
     script_container |-> ScriptPubkeyCommitment_container(self.script_commitment)]

\* Faulty variant: the output is rebuilt with the first amount.
ValueLost_TxoutCommitment_commit_embed(container, msg, cells) ==
    LET r == ScriptPubkeyCommitment_commit_embed(container.script_container, msg, cells)
    IN  [result |->
           IF ~r.result.ok THEN r.result
           ELSE Ok([value |-> 1, script_commitment |-> r.result.val]),
         cells |-> r.cells]

\* TxoutCommitment::commit_embed
TxoutCommitment_commit_embed(container, msg, cells) ==
    LET r == ScriptPubkeyCommitment_commit_embed(container.script_container, msg, cells)
    IN  [result |->
           IF ~r.result.ok THEN r.result
           ELSE Ok([value |-> container.value, script_commitment |-> r.result.val]),
         cells |-> r.cells]

\* CommitEmbedVerify::verify for LockscriptCommitment: the commitment is
\* recomputed from the container the verifier supplies and compared.
LockscriptCommitment_verify(self, container, msg, cells) ==
    LET r == LockscriptCommitment_commit_embed(container, msg, cells)
    IN  [verdict |-> recompute_and_compare(r.result, self), cells |-> r.cells]

(* ------------------------------ the state ------------------------------ *)
VARIABLES
    scheme,         \* which commitment scheme the caller uses
    container,      \* the container handed to the commit
    msg,            \* the message handed to the commit
    pc,             \* "ready", "committed", "verified" or "recovered"
    keys_count,     \* the three counter cells of the lockscript traversal,
    hashes_count,   \*   as the last traversal left them
    found,
    result,         \* what the last commit returned
    commitment,     \* the commitment handed to the last verification
    vmsg,           \* the message handed to the last verification
    verdict,        \* what the last verification returned
    ref,            \* an earlier call, kept for comparison
    recovered,      \* the container last recovered from a commitment
    fn,             \* the function applied outside the commitment schemes
    input,          \* the argument it was given
    output,         \* what it returned
    threads,        \* the calls of commit_embed that run at the same time
    thread_cells    \* the counters those calls hold, by owner

vars == <<scheme, container, msg, pc, keys_count, hashes_count, found,
          result, commitment, vmsg, verdict, ref, recovered, fn, input, output,
          threads, thread_cells>>

\* what the commitment schemes leave alone
conc_vars == <<threads, thread_cells>>
ConcIdle == threads = <<>> /\ thread_cells = <<>>
fn_vars == <<fn, input, output, conc_vars>>
FnIdle == fn = "none" /\ input = None /\ output = None /\ ConcIdle

cells_now ==
    [keys_count |-> keys_count, hashes_count |-> hashes_count, found |-> found]

LockscriptContainers == [script : Scripts, pubkey : Keys]
TxScripts == {Pk(k, TRUE) : k \in Keys}
                 \cup {PkH(h) : h \in DummyHashes}
                 \cup {Leaf("older"), Leaf("unparsable")}
ScriptPubkeyContainers == [template : Templates, pubkey : Keys, script : TxScripts]
TxoutContainers == [value : Values, script_container : ScriptPubkeyContainers]

Inputs ==
    ({"lockscript"} \X LockscriptContainers)
        \cup ({"taproot"} \X TaprootContainers)
        \cup ({"txout"} \X TxoutContainers)

Init ==
    /\ \E i \in Inputs : scheme = i[1] /\ container = i[2]
    /\ msg \in Msgs
    /\ pc = "ready"
    /\ keys_count = 0 /\ hashes_count = 0 /\ found = 0
    /\ result = None
    /\ commitment = None
    /\ vmsg = 0
    /\ verdict = FALSE
    /\ ref = None
    /\ recovered = None
    /\ FnIdle

(* ------------------------------ operations ----------------------------- *)
\* LockscriptCommitment::commit_embed(container, msg)
LockscriptCommit ==
    /\ scheme = "lockscript" /\ pc = "ready"
    /\ LET r == LockscriptCommitment_commit_embed(container, msg, cells_now)
       IN  /\ result' = r.result
           /\ keys_count' = r.cells.keys_count
           /\ hashes_count' = r.cells.hashes_count
           /\ found' = r.cells.found
    /\ pc' = "committed"
    /\ UNCHANGED <<scheme, container, msg, commitment, vmsg, verdict, ref>>
    /\ UNCHANGED <<recovered, fn_vars>>

\* commitment.verify(container, m) on the commitment just made
LockscriptVerify ==
    /\ scheme = "lockscript" /\ pc = "committed" /\ result.ok
    /\ \E m \in Msgs :
        LET v == LockscriptCommitment_verify(result.val, container, m, cells_now)
        IN  /\ verdict' = v.verdict
            /\ keys_count' = v.cells.keys_count
            /\ hashes_count' = v.cells.hashes_count
            /\ found' = v.cells.found
            /\ vmsg' = m
    /\ commitment' = result.val
    /\ pc' = "verified"
    /\ UNCHANGED <<scheme, container, msg, result, ref, recovered, fn_vars>>

\* TaprootCommitment::commit_to(container, msg)
TaprootCommit ==
    /\ scheme = "taproot" /\ pc = "ready"
    /\ result' = TaprootCommitment_commit_to(container, msg)
    /\ pc' = "committed"
    /\ UNCHANGED <<scheme, container, msg, keys_count, hashes_count, found,
                   commitment, vmsg, verdict, ref, recovered, fn_vars>>

\* c.reveal_verify(m), for any taproot commitment c, made by a commit or not
TaprootRevealVerify ==
    /\ scheme = "taproot" /\ pc \in {"ready", "committed"}
    /\ \E c \in TaprootCommitments, m \in Msgs :
        /\ commitment' = c
        /\ vmsg' = m
        /\ verdict' = TaprootCommitment_reveal_verify(c, m)
    /\ pc' = "verified"
    /\ UNCHANGED <<scheme, container, msg, keys_count, hashes_count, found,
                   result, ref, recovered, fn_vars>>

\* TxoutCommitment::commit_embed(container, msg)
TxoutCommit ==
    /\ scheme = "txout" /\ pc = "ready"
    /\ LET r == TxoutCommitment_commit_embed(container, msg, cells_now)
       IN  /\ result' = r.result
           /\ keys_count' = r.cells.keys_count
           /\ hashes_count' = r.cells.hashes_count
           /\ found' = r.cells.found
    /\ pc' = "committed"
    /\ UNCHANGED <<scheme, container, msg, commitment, vmsg, verdict, ref>>
    /\ UNCHANGED <<recovered, fn_vars>>

\* c.get_original_container() on the taproot commitment just made
TaprootGetOriginalContainer ==
    /\ scheme = "taproot" /\ pc = "committed" /\ result.ok
    /\ recovered' = TaprootCommitment_get_original_container(result.val)
    /\ pc' = "recovered"
    /\ UNCHANGED <<scheme, container, msg, keys_count, hashes_count, found,
                   result, commitment, vmsg, verdict, ref, fn_vars>>

\* c.container() on the output commitment just made
TxoutContainer ==
    /\ scheme = "txout" /\ pc = "committed" /\ result.ok
    /\ recovered' = TxoutCommitment_container(result.val)
    /\ pc' = "recovered"
    /\ UNCHANGED <<scheme, container, msg, keys_count, hashes_count, found,
                   result, commitment, vmsg, verdict, ref, fn_vars>>

Next ==
    \/ LockscriptCommit
    \/ LockscriptVerify
    \/ TaprootCommit
    \/ TaprootRevealVerify
    \/ TaprootGetOriginalContainer
    \/ TxoutCommit
    \/ TxoutContainer

Spec == Init /\ [][Next]_vars

(* ------------------------ a caller's run of calls ---------------------- *)
\* One caller commits again and again, each time with a container and a
\* message of its choice; ref keeps one of the earlier calls and counts the
\* calls made since, up to MaxSince.
CallScripts ==
    {Pk(k, TRUE) : k \in Keys} \cup {PkH(h) : h \in DummyHashes} \cup {Leaf("older")}
CallTemplates == {"bare-key", "bare-script", "non-standard"}
CallInputs ==
    ({"lockscript"} \X [script : CallScripts, pubkey : Keys])
        \cup ({"taproot"} \X TaprootContainers)
        \cup ({"txout"} \X [value : Values,
                            script_container :
                                [template : CallTemplates, pubkey : Keys,
                                 script : {Pk(1, TRUE)}]])
CallMsgs == {1, 2}

InitCalls ==
    /\ scheme = "none" /\ container = None /\ msg = 0
    /\ pc = "ready"
    /\ keys_count = 0 /\ hashes_count = 0 /\ found = 0
    /\ result = None /\ commitment = None /\ vmsg = 0 /\ verdict = FALSE
    /\ ref = None
    /\ recovered = None
    /\ FnIdle

Called(s, c, m, r, keep) ==
    /\ scheme' = s /\ container' = c /\ msg' = m
    /\ result' = r.result
    /\ keys_count' = r.cells.keys_count
    /\ hashes_count' = r.cells.hashes_count
    /\ found' = r.cells.found
    /\ pc' = "committed"
    /\ ref' = IF keep
              THEN [kind |-> "call", ok |-> TRUE, scheme |-> s, container |-> c,
                    msg |-> m, result |-> r.result, since |-> 0]
              ELSE IF ref.kind = "call"
              THEN [ref EXCEPT !.since = IF @ < MaxSince THEN @ + 1 ELSE @]
              ELSE ref
    /\ UNCHANGED <<commitment, vmsg, verdict, recovered, fn_vars>>

CallLockscript ==
    \E i \in CallInputs, m \in CallMsgs, keep \in BOOLEAN :
        /\ i[1] = "lockscript"
        /\ Called(i[1], i[2], m,
                  LockscriptCommitment_commit_embed(i[2], m, cells_now), keep)

CallTaproot ==
    \E i \in CallInputs, m \in CallMsgs, keep \in BOOLEAN :
        /\ i[1] = "taproot"
        /\ Called(i[1], i[2], m,
                  [result |-> TaprootCommitment_commit_to(i[2], m), cells |-> cells_now],
                  keep)

CallTxout ==
    \E i \in CallInputs, m \in CallMsgs, keep \in BOOLEAN :
        /\ i[1] = "txout"
        /\ Called(i[1], i[2], m,
                  TxoutCommitment_commit_embed(i[2], m, cells_now), keep)

NextCalls == CallLockscript \/ CallTaproot \/ CallTxout

SpecCalls == InitCalls /\ [][NextCalls]_vars

(* ------------- hashing, blinding and the strict encoding --------------- *)
\* A byte string is a sequence of numbers 0..255.  A hash is the pair of
\* its algorithm and the bytes fed to its engine: equal inputs give equal
\* hashes, and different inputs or algorithms are taken to give different
\* hashes.
HashOf(algo, bytes) == [algo |-> algo, preimage |-> bytes]

\* what the commitment schemes hold while these functions run
dbc_vars == <<scheme, container, msg, keys_count, hashes_count, found,
              result, commitment, vmsg, verdict, ref, recovered>>
DbcIdle ==
    /\ scheme = "none" /\ container = None /\ msg = 0
    /\ keys_count = 0 /\ hashes_count = 0 /\ found = 0
    /\ result = None /\ commitment = None /\ vmsg = 0 /\ verdict = FALSE
    /\ ref = None /\ recovered = None

(* -------------------------- standalone commitments --------------------- *)
\* The schema identifier as a standalone commitment: the tagged hash of
\* the serialized bytes it is given.
SchemaId_commit_to(bytes) == HashOf("SchemaId", bytes)

\* Faulty variant: the comparison is inverted.
Inverted_StandaloneCommitment_reveal_verify(self, bytes) ==
    SchemaId_commit_to(bytes) # self

\* StandaloneCommitment::reveal_verify (the default)
StandaloneCommitment_reveal_verify(self, bytes) ==
    SchemaId_commit_to(bytes) = self

\* Verifiable::verify
Verifiable_verify(self, cmt) == StandaloneCommitment_reveal_verify(cmt, self)

StandaloneMsgs == {<<>>, <<0>>, <<1>>, <<0, 1>>, <<1, 0>>}
StandaloneCommitments == {SchemaId_commit_to(m) : m \in StandaloneMsgs}
VerifyInputs == [commitment : StandaloneCommitments, msg : StandaloneMsgs]

(* --------------------------- outpoint blinding ------------------------- *)
TxidLen == 32       \* bytes of a transaction id

\* uN::to_le_bytes: the width bytes of x, least significant first
to_le_bytes(x, width) == [i \in 1..width |-> (x \div (256 ^ (i - 1))) % 256]

\* Faulty variant: least significant byte first.
LittleEndian_to_be_bytes(x, width) == to_le_bytes(x, width)

\* uN::to_be_bytes: the width bytes of x, most significant first
to_be_bytes(x, width) == [i \in 1..width |-> (x \div (256 ^ (width - i))) % 256]

\* OutpointReveal::outpoint_hash: the three engine inputs in their order
OutpointReveal_outpoint_hash(self) ==
    HashOf("OutpointHash",
           to_be_bytes(self.blinding, 4) \o self.txid \o to_be_bytes(self.vout, 2))

Blindings == {0, 1, 256, 2147483647}
Txids == {[i \in 1..TxidLen |-> 0],
          [i \in 1..TxidLen |-> IF i = 1 THEN 1 ELSE 0],
          [i \in 1..TxidLen |-> IF i = TxidLen THEN 1 ELSE 0]}
Vouts == {0, 1, 256, 65535}
OutpointReveals == [blinding : Blindings, txid : Txids, vout : Vouts]
\* two reveals, hashed one after the other
OutpointInputs == [a : OutpointReveals, b : OutpointReveals]

(* ---------------------------- strict encoding ------------------------- *)
\* A type is the sequence of its constructors, outermost first:
\* <<"u8">>, <<"u16">>, <<"usize">>, <<"bytes">> (Box<[u8]>), <<"string">>,
\* <<"vec", ...>>, <<"option", ...>>, <<"btreemap", ...>> and
\* <<"hashmap", ...>> (maps keyed by usize).  A number is itself, a byte
\* string its bytes, a string its UTF-8 bytes, a Vec the sequence of its
\* items, None the empty sequence and Some(v) the sequence <<v>>.  A map
\* handed to an encoder is the sequence of its entries [key, val] in the
\* order it iterates them: ascending keys for a BTreeMap, any order for a
\* HashMap.  A BTreeMap that a decoder returns is that sequence too; a
\* HashMap that a decoder returns is the set of its entries, since the
\* order in which it will iterate them is drawn from the random state of
\* its hasher, differs from one call to the next and is no part of the
\* value.
U16Max == 65535     \* std::u16::MAX

\* Error variants with their payload (0 for a variant that has none)
CodecError(kind, arg) == [kind |-> kind, arg |-> arg]
IoError == CodecError("Io", 0)
Utf8ConversionError == CodecError("Utf8Conversion", 0)
ExceedMaxItems(n) == CodecError("ExceedMaxItems", n)
WrongOptionalEncoding(b) == CodecError("WrongOptionalEncoding", b)
DataNotEntirelyConsumed == CodecError("DataNotEntirelyConsumed", 0)

\* Faulty variant: the bytes are read most significant first.
RECURSIVE from_be_bytes(_)
from_be_bytes(b) ==
    IF Len(b) = 0 THEN 0 ELSE b[Len(b)] + 256 * from_be_bytes(SubSeq(b, 1, Len(b) - 1))

\* uN::from_le_bytes
RECURSIVE from_le_bytes(_)
from_le_bytes(b) ==
    IF Len(b) = 0 THEN 0 ELSE b[1] + 256 * from_le_bytes(Tail(b))

\* the well-formedness test of String::from_utf8, from position i on
RECURSIVE IsUtf8From(_, _)
IsUtf8From(b, i) ==
    LET Cont(j) == j <= Len(b) /\ b[j] >= 128 /\ b[j] <= 191
    IN  IF i > Len(b) THEN TRUE
        ELSE IF b[i] <= 127 THEN IsUtf8From(b, i + 1)
        ELSE IF b[i] >= 194 /\ b[i] <= 223
        THEN Cont(i + 1) /\ IsUtf8From(b, i + 2)
        ELSE IF b[i] >= 224 /\ b[i] <= 239
        THEN /\ Cont(i + 1) /\ Cont(i + 2)
             /\ (b[i] = 224 => b[i + 1] >= 160)
             /\ (b[i] = 237 => b[i + 1] <= 159)
             /\ IsUtf8From(b, i + 3)
        ELSE IF b[i] >= 240 /\ b[i] <= 244
        THEN /\ Cont(i + 1) /\ Cont(i + 2) /\ Cont(i + 3)
             /\ (b[i] = 240 => b[i + 1] >= 144)
             /\ (b[i] = 244 => b[i + 1] <= 143)
             /\ IsUtf8From(b, i + 4)
        ELSE FALSE
IsUtf8(b) == IsUtf8From(b, 1)

\* T::strict_encode(&self, e): e is what the writer holds; the result is
\* the count returned, or the error, and what the writer holds afterwards.
RECURSIVE T_strict_encode(_, _, _)
RECURSIVE encode_items(_, _, _, _, _)
RECURSIVE encode_range(_, _, _, _, _, _)

\* Faulty variant: a value that fails to encode is left out.
Lenient_Option_strict_encode(ty, v, e) ==
    IF Len(v) = 0 THEN T_strict_encode(<<"u8">>, 0, e)
    ELSE LET tag == T_strict_encode(<<"u8">>, 1, e)
             val == T_strict_encode(Tail(ty), v[1], tag.e)
         IN  IF ~val.result.ok THEN tag
             ELSE [result |-> Ok(tag.result.val + val.result.val), e |-> val.e]

\* strict_encode_list!(e; items...): the items one after the other, each
\* of fields[i] with its type types[i], from item i on
RECURSIVE strict_encode_list(_, _, _, _, _)
strict_encode_list(types, fields, i, len, e) ==
    IF i > Len(fields) THEN [result |-> Ok(len), e |-> e]
    ELSE LET item == T_strict_encode(types[i], fields[i], e)
         IN  IF ~item.result.ok THEN item
             ELSE strict_encode_list(types, fields, i + 1, len + item.result.val, item.e)

\* A Schema is the record of its five fields.  The formats a map holds
\* (FieldFormat, StateFormat, Transition) and the script extensions are
\* taken as one-byte values, the script library as a Vec<u8>.
SchemaMap == <<"btreemap", "u8">>
SchemaTypes == <<SchemaMap, SchemaMap, SchemaMap, <<"vec", "u8">>, <<"u8">> >>

\* Faulty variant: seal_types is written before field_types.
SealsFirst_Schema_strict_encode(v, e) ==
    strict_encode_list(
        SchemaTypes,
        <<v.seal_types, v.field_types, v.transitions, v.script_library,
          v.script_extensions>>,
        1, 0, e)

\* Schema::strict_encode
Schema_strict_encode(v, e) ==
    strict_encode_list(
        SchemaTypes,
        <<v.field_types, v.seal_types, v.transitions, v.script_library,
          v.script_extensions>>,
        1, 0, e)

\* Faulty variant: the largest count is refused as well.
Exclusive_usize_strict_encode(v, e) ==
    IF v >= U16Max
    THEN [result |-> Err(ExceedMaxItems(v)), e |-> e]
    ELSE T_strict_encode(<<"u16">>, v, e)

\* usize::strict_encode: a u16, or an error above std::u16::MAX
usize_strict_encode(v, e) ==
    IF v > U16Max
    THEN [result |-> Err(ExceedMaxItems(v)), e |-> e]
    ELSE T_strict_encode(<<"u16">>, v, e)

\* the values of a map in the order it iterates them
values(map) == [i \in 1..Len(map) |-> map[i].val]

\* collecting entries into a BTreeMap: ascending keys
RECURSIVE collect_BTreeMap(_)
collect_BTreeMap(entries) ==
    IF entries = {} THEN <<>>
    ELSE LET first == CHOOSE x \in entries : \A y \in entries : x.key <= y.key
         IN  <<first>> \o collect_BTreeMap(entries \ {first})
\* the entries a map iterates
iter(map) == {map[i] : i \in 1..Len(map)}

\* Faulty variant: the keys are written too, ahead of the values.
Keyed_BTreeMap_strict_encode(ty, v, e) ==
    LET keys == T_strict_encode(<<"vec", "usize">>,
                                [i \in 1..Len(v) |-> v[i].key], e)
    IN  IF ~keys.result.ok THEN keys
        ELSE encode_items(Tail(ty), values(v), 1, keys.result.val, keys.e)

\* BTreeMap<usize, T>::strict_encode: the entry count, then the values
BTreeMap_strict_encode(ty, v, e) ==
    LET len == T_strict_encode(<<"usize">>, Len(v), e)
    IN  IF ~len.result.ok THEN len
        ELSE encode_items(Tail(ty), values(v), 1, len.result.val, len.e)

\* Faulty variant: the entries are encoded in the order the map iterates.
Unordered_HashMap_strict_encode(ty, v, e) ==
    BTreeMap_strict_encode(ty, v, e)

\* HashMap<usize, T>::strict_encode: collected into a BTreeMap first
HashMap_strict_encode(ty, v, e) ==
    LET ordered == collect_BTreeMap(iter(v))
    IN  BTreeMap_strict_encode(ty, ordered, e)

\* Option<T>::strict_encode: strict_encode_list!(e; 0u8) for None,
\* strict_encode_list!(e; 1u8, val) for Some(val)
Option_strict_encode(ty, v, e) ==
    IF Len(v) = 0 THEN T_strict_encode(<<"u8">>, 0, e)
    ELSE LET tag == T_strict_encode(<<"u8">>, 1, e)
             val == T_strict_encode(Tail(ty), v[1], tag.e)
         IN  IF ~val.result.ok THEN val
             ELSE [result |-> Ok(tag.result.val + val.result.val), e |-> val.e]

T_strict_encode(ty, v, e) ==
    LET k == Head(ty)
    IN  CASE k = "u8" -> [result |-> Ok(1), e |-> e \o to_le_bytes(v, 1)]
          [] k = "u16" -> [result |-> Ok(2), e |-> e \o to_le_bytes(v, 2)]
          [] k = "usize" -> usize_strict_encode(v, e)
          [] k \in {"bytes", "string"} ->
                LET len == T_strict_encode(<<"usize">>, Len(v), e)
                IN  IF ~len.result.ok THEN len
                    ELSE [result |-> Ok(Len(v) + len.result.val), e |-> len.e \o v]
          [] k = "option" -> Option_strict_encode(ty, v, e)
          [] k = "vec" ->
                LET len == T_strict_encode(<<"usize">>, Len(v), e)
                IN  IF ~len.result.ok THEN len
                    ELSE encode_items(Tail(ty), v, 1, len.result.val, len.e)
          [] k = "btreemap" -> BTreeMap_strict_encode(ty, v, e)
          [] k = "hashmap" -> HashMap_strict_encode(ty, v, e)
          [] k = "schema" -> Schema_strict_encode(v, e)
\* the loop of Vec<T>::strict_encode over the items lo..hi: the items are
\* encoded one after the other, each onto what the ones before it wrote,
\* its size added to the count, and the first error ends the loop
encode_range(ty, items, lo, hi, encoded, e) ==
    IF lo = hi
    THEN LET item == T_strict_encode(ty, items[lo], e)
         IN  IF ~item.result.ok THEN item
             ELSE [result |-> Ok(encoded + item.result.val), e |-> item.e]
    ELSE LET mid == (lo + hi) \div 2
             left == encode_range(ty, items, lo, mid, encoded, e)
         IN  IF ~left.result.ok THEN left
             ELSE encode_range(ty, items, mid + 1, hi, left.result.val, left.e)

\* Faulty variant: the sizes of the items are not added to the count.
ItemsUncounted_encode_items(ty, items, i, encoded, e) ==
    IF i > Len(items) THEN [result |-> Ok(encoded), e |-> e]
    ELSE LET r == encode_range(ty, items, i, Len(items), encoded, e)
         IN  IF ~r.result.ok THEN r
             ELSE [result |-> Ok(encoded), e |-> r.e]

\* the loop of Vec<T>::strict_encode, from item i on
encode_items(ty, items, i, encoded, e) ==
    IF i > Len(items) THEN [result |-> Ok(encoded), e |-> e]
    ELSE encode_range(ty, items, i, Len(items), encoded, e)

\* the convenience function strict_encode
strict_encode(ty, v) ==
    LET r == T_strict_encode(ty, v, <<>>)
    IN  IF r.result.ok THEN Ok(r.e) ELSE r.result

\* Faulty variant: a short read hands out the bytes that are left.
ShortRead_read_exact(d, pos, n) ==
    IF pos + n <= Len(d)
    THEN [result |-> Ok(SubSeq(d, pos + 1, pos + n)), pos |-> pos + n]
    ELSE [result |-> Ok(SubSeq(d, pos + 1, Len(d))), pos |-> Len(d)]

\* Read::read_exact on a cursor at pos: n bytes, or an error when fewer
\* are left; the failed read leaves the cursor at the end of the data
read_exact(d, pos, n) ==
    IF pos + n <= Len(d)
    THEN [result |-> Ok(SubSeq(d, pos + 1, pos + n)), pos |-> pos + n]
    ELSE [result |-> Err(IoError), pos |-> Len(d)]

\* T::strict_decode(d): d is the data under the cursor and pos the
\* cursor's position; the result is the value, or the error, and the
\* position afterwards.
RECURSIVE T_strict_decode(_, _, _)
RECURSIVE decode_items(_, _, _, _, _)

\* Faulty variant: a usize read wider than two bytes.
Wide_usize_strict_decode(d, pos) ==
    LET r == read_exact(d, pos, 3)
    IN  IF ~r.result.ok THEN r
        ELSE [result |-> Ok(from_le_bytes(r.result.val)), pos |-> r.pos]

\* usize::strict_decode: a u16, widened
usize_strict_decode(d, pos) == T_strict_decode(<<"u16">>, d, pos)

\* Schema::strict_decode: the five fields read one after the other
Schema_strict_decode(d, pos) ==
    LET field_types == T_strict_decode(SchemaMap, d, pos)
        seal_types == T_strict_decode(SchemaMap, d, field_types.pos)
        transitions == T_strict_decode(SchemaMap, d, seal_types.pos)
        script_library == T_strict_decode(<<"vec", "u8">>, d, transitions.pos)
        script_extensions == T_strict_decode(<<"u8">>, d, script_library.pos)
    IN  IF ~field_types.result.ok THEN field_types
        ELSE IF ~seal_types.result.ok THEN seal_types
        ELSE IF ~transitions.result.ok THEN transitions
        ELSE IF ~script_library.result.ok THEN script_library
        ELSE IF ~script_extensions.result.ok THEN script_extensions
        ELSE [result |-> Ok([field_types |-> field_types.result.val,
                             seal_types |-> seal_types.result.val,
                             transitions |-> transitions.result.val,
                             script_library |-> script_library.result.val,
                             script_extensions |-> script_extensions.result.val]),
              pos |-> script_extensions.pos]

\* BTreeMap<usize, T>::strict_decode: the values read are inserted under
\* the indexes 0, 1, ...
BTreeMap_strict_decode(ty, d, pos) ==
    LET len == T_strict_decode(<<"usize">>, d, pos)
    IN  IF ~len.result.ok THEN len
        ELSE LET r == decode_items(Tail(ty), d, len.pos, len.result.val, <<>>)
             IN  IF ~r.result.ok THEN r
                 ELSE [result |->
                          Ok([index \in 1..Len(r.result.val) |->
                                 [key |-> index - 1, val |-> r.result.val[index]]]),
                       pos |-> r.pos]

\* collecting entries into a HashMap: the entries, in no order
collect_HashMap(entries) == entries

\* HashMap<usize, T>::strict_decode: the BTreeMap decoded, its entries
\* collected into a HashMap
HashMap_strict_decode(ty, d, pos) ==
    LET r == BTreeMap_strict_decode(<<"btreemap">> \o Tail(ty), d, pos)
    IN  IF ~r.result.ok THEN r
        ELSE [result |-> Ok(collect_HashMap(iter(r.result.val))), pos |-> r.pos]

\* Faulty variant: every tag other than 0 announces a value.
NonZeroIsSome_Option_strict_decode(ty, d, pos) ==
    LET len == T_strict_decode(<<"u8">>, d, pos)
    IN  IF ~len.result.ok THEN len
        ELSE IF len.result.val = 0
        THEN [result |-> Ok(<<>>), pos |-> len.pos]
        ELSE LET val == T_strict_decode(Tail(ty), d, len.pos)
             IN  IF ~val.result.ok THEN val
                 ELSE [result |-> Ok(<<val.result.val>>), pos |-> val.pos]

\* Option<T>::strict_decode
Option_strict_decode(ty, d, pos) ==
    LET len == T_strict_decode(<<"u8">>, d, pos)
    IN  IF ~len.result.ok THEN len
        ELSE IF len.result.val = 0
        THEN [result |-> Ok(<<>>), pos |-> len.pos]
        ELSE IF len.result.val = 1
        THEN LET val == T_strict_decode(Tail(ty), d, len.pos)
             IN  IF ~val.result.ok THEN val
                 ELSE [result |-> Ok(<<val.result.val>>), pos |-> val.pos]
        ELSE [result |-> Err(WrongOptionalEncoding(len.result.val)),
              pos |-> len.pos]

T_strict_decode(ty, d, pos) ==
    LET k == Head(ty)
    IN  CASE k \in {"u8", "u16"} ->
                LET r == read_exact(d, pos, IF k = "u8" THEN 1 ELSE 2)
                IN  IF ~r.result.ok THEN r
                    ELSE [result |-> Ok(from_le_bytes(r.result.val)), pos |-> r.pos]
          [] k = "usize" -> usize_strict_decode(d, pos)
          [] k = "bytes" ->
                LET len == T_strict_decode(<<"usize">>, d, pos)
                IN  IF ~len.result.ok THEN len
                    ELSE read_exact(d, len.pos, len.result.val)
          [] k = "string" ->
                LET r == T_strict_decode(<<"vec", "u8">>, d, pos)
                IN  IF ~r.result.ok THEN r
                    ELSE IF IsUtf8(r.result.val) THEN r
                    ELSE [result |-> Err(Utf8ConversionError), pos |-> r.pos]
          [] k = "option" -> Option_strict_decode(ty, d, pos)
          [] k = "vec" ->
                LET len == T_strict_decode(<<"usize">>, d, pos)
                IN  IF ~len.result.ok THEN len
                    ELSE decode_items(Tail(ty), d, len.pos, len.result.val, <<>>)
          [] k = "btreemap" -> BTreeMap_strict_decode(ty, d, pos)
          [] k = "hashmap" -> HashMap_strict_decode(ty, d, pos)
          [] k = "schema" -> Schema_strict_decode(d, pos)
\* the loop of Vec<T>::strict_decode, with left items still to read
decode_items(ty, d, pos, left, data) ==
    IF left = 0 THEN [result |-> Ok(data), pos |-> pos]
    ELSE LET item == T_strict_decode(ty, d, pos)
         IN  IF ~item.result.ok THEN item
             ELSE decode_items(ty, d, item.pos, left - 1,
                               Append(data, item.result.val))

\* Faulty variant: whatever decodes is returned, bytes left over or not.
LeftoverAccepted_strict_decode(ty, data) ==
    T_strict_decode(ty, data, 0).result

\* the convenience function strict_decode
strict_decode(ty, data) ==
    LET rv == T_strict_decode(ty, data, 0)
        consumed == rv.pos
    IN  IF ~rv.result.ok THEN rv.result
        ELSE IF consumed = Len(data) THEN Ok(rv.result.val)
        ELSE Err(DataNotEntirelyConsumed)

\* Schema::schema_id: the commitment to the schema's strict encoding
Schema_schema_id(self) ==
    SchemaId_commit_to(strict_encode(<<"schema">>, self).val)

\* the schemas identified: maps as in schema_test (keys 5, 1 and 0), and
\* the same values under other keys
Schemas ==
    [field_types : {<<>>, <<[key |-> 5, val |-> 10]>>, <<[key |-> 0, val |-> 10]>>},
     seal_types : {<<[key |-> 1, val |-> 0]>>, <<[key |-> 0, val |-> 0]>>},
     transitions : {<<>>, <<[key |-> 0, val |-> 7]>>},
     script_library : {<<>>, <<1>>},
     script_extensions : {0, 1}]
SchemaInputs == [a : Schemas, b : Schemas]

\* the types and values handed to the encoder
CodecTypes ==
    {<<"u8">>, <<"u16">>, <<"usize">>, <<"bytes">>, <<"string">>,
     <<"vec", "u8">>, <<"vec", "usize">>,
     <<"option", "u8">>, <<"option", "usize">>, <<"option", "bytes">>,
     <<"option", "vec", "u8">>,
     <<"btreemap", "u8">>, <<"hashmap", "u8">>}
\* keys of the maps handed to the encoder
MapKeys == {0, 1, 5}
\* the maps of up to MaxItems entries, in every order of iteration
MapsOver(keys, vals) ==
    UNION {{m \in [1..n -> [key : keys, val : vals]] :
                \A i, j \in 1..n : i # j => m[i].key # m[j].key} :
           n \in 0..MaxItems}
Ascending(m) == \A i, j \in 1..Len(m) : i < j => m[i].key < m[j].key
RECURSIVE ValuesOf(_)
ValuesOf(ty) ==
    LET k == Head(ty)
    IN  CASE k = "u8" -> {0, 1, 13, 255}
          [] k = "u16" -> {0, 1, 256, 65535}
          [] k = "usize" -> {0, 1, 65535, 65536}
          [] k = "bytes" -> {<<>>, <<13>>, <<0, 13, 255>>}
          [] k = "string" -> {<<>>, <<65>>, <<195, 128>>}
          [] k = "vec" -> UNION {[1..n -> ValuesOf(Tail(ty))] : n \in 0..MaxItems}
          [] k = "option" -> {<<>>} \cup {<<v>> : v \in ValuesOf(Tail(ty))}
          [] k = "btreemap" ->
                {m \in MapsOver(MapKeys, ValuesOf(Tail(ty))) : Ascending(m)}
          [] k = "hashmap" -> MapsOver(MapKeys, ValuesOf(Tail(ty)))

\* collections at the limit of the item count and one item above it
LargeValuesOf(ty) ==
    CASE ty = <<"bytes">> ->
            {[i \in 1..U16Max |-> 0], [i \in 1..(U16Max + 1) |-> 0]}
      [] ty = <<"string">> ->
            {[i \in 1..U16Max |-> 65], [i \in 1..(U16Max + 1) |-> 65]}
      [] ty = <<"vec", "u8">> ->
            {[i \in 1..U16Max |-> 1], [i \in 1..(U16Max + 1) |-> 0]}
      [] ty = <<"btreemap", "u8">> ->
            {[i \in 1..U16Max |-> [key |-> i - 1, val |-> 1]],
             [i \in 1..(U16Max + 1) |-> [key |-> i - 1, val |-> 0]]}
      [] OTHER -> {}

\* the data handed to the decoder: what the encoder produced, whole, cut
\* short or followed by one more byte, and byte strings no encoder made
Encodings ==
    UNION {{strict_encode(t, v).val :
                v \in {w \in ValuesOf(t) : strict_encode(t, w).ok}} :
           t \in CodecTypes}
Prefixes(b) == {SubSeq(b, 1, n) : n \in 0..Len(b)}
DecodeData ==
    UNION {Prefixes(b) : b \in Encodings}
        \cup {b \o <<0>> : b \in Encodings}
        \cup {<<2>>, <<2, 0>>, <<255, 13>>, <<1, 0, 255>>, <<2, 0, 195>>,
              <<2, 0, 0, 0>>, <<3, 0, 0, 0>>, <<255, 0, 0, 0>>,
              <<1, 255, 255, 255, 255, 255, 255, 255, 255>>}
DecodeInputs == [ty : CodecTypes, data : DecodeData]

\* the values encoded and decoded again: a large collection is among them
\* when its decoding is a single read, or when it does not encode
RoundTripValuesOf(ty) ==
    ValuesOf(ty) \cup {v \in LargeValuesOf(ty) : ty = <<"bytes">> \/ Len(v) > U16Max}

(* ------------------- the functions, one call of each ------------------- *)
InitFn ==
    /\ DbcIdle /\ ConcIdle
    /\ pc = "ready"
    /\ \/ fn = "verify" /\ input \in VerifyInputs
       \/ fn = "outpoint_hash" /\ input \in OutpointInputs
       \/ /\ fn \in {"T::strict_encode", "strict_encode"}
          /\ \E t \in CodecTypes : \E v \in ValuesOf(t) \cup LargeValuesOf(t) :
                input = [ty |-> t, value |-> v]
       \/ /\ fn \in {"T::strict_decode", "strict_decode"}
          /\ input \in DecodeInputs
       \/ fn = "schema_id" /\ input \in SchemaInputs
       \/ /\ fn = "round_trip"
          /\ \E t \in CodecTypes : \E v \in RoundTripValuesOf(t) :
                input = [ty |-> t, value |-> v]
    /\ output = None

\* c.reveal_verify(m) and m.verify(c) on the same commitment and message
StandaloneVerify ==
    /\ fn = "verify" /\ pc = "ready"
    /\ output' = [reveal_verify |->
                     StandaloneCommitment_reveal_verify(input.commitment, input.msg),
                  verify |-> Verifiable_verify(input.msg, input.commitment)]
    /\ pc' = "done"
    /\ UNCHANGED <<dbc_vars, fn, input, conc_vars>>

\* a.outpoint_hash() and b.outpoint_hash()
OutpointHash ==
    /\ fn = "outpoint_hash" /\ pc = "ready"
    /\ output' = [a |-> OutpointReveal_outpoint_hash(input.a),
                  b |-> OutpointReveal_outpoint_hash(input.b)]
    /\ pc' = "done"
    /\ UNCHANGED <<dbc_vars, fn, input, conc_vars>>

\* value.strict_encode(&mut e) on an empty writer
StrictEncodeTrait ==
    /\ fn = "T::strict_encode" /\ pc = "ready"
    /\ output' = T_strict_encode(input.ty, input.value, <<>>)
    /\ pc' = "done"
    /\ UNCHANGED <<dbc_vars, fn, input, conc_vars>>

\* strict_encode(&value)
StrictEncode ==
    /\ fn = "strict_encode" /\ pc = "ready"
    /\ output' = strict_encode(input.ty, input.value)
    /\ pc' = "done"
    /\ UNCHANGED <<dbc_vars, fn, input, conc_vars>>

\* T::strict_decode(&data[..])
StrictDecodeTrait ==
    /\ fn = "T::strict_decode" /\ pc = "ready"
    /\ output' = T_strict_decode(input.ty, input.data, 0)
    /\ pc' = "done"
    /\ UNCHANGED <<dbc_vars, fn, input, conc_vars>>

\* strict_decode::<T>(&data)
StrictDecode ==
    /\ fn = "strict_decode" /\ pc = "ready"
    /\ output' = strict_decode(input.ty, input.data)
    /\ pc' = "done"
    /\ UNCHANGED <<dbc_vars, fn, input, conc_vars>>

\* strict_encode(&value), then strict_decode of the bytes it returned
RoundTrip ==
    /\ fn = "round_trip" /\ pc = "ready"
    /\ LET r == strict_encode(input.ty, input.value)
       IN  output' = [encoded |-> r,
                      decoded |-> IF r.ok THEN strict_decode(input.ty, r.val)
                                  ELSE None]
    /\ pc' = "done"
    /\ UNCHANGED <<dbc_vars, fn, input, conc_vars>>

\* what is computed of one schema: its strict encoding, its identifier and
\* the schema decoded from the encoding
SchemaOutput(schema) ==
    LET r == strict_encode(<<"schema">>, schema)
    IN  [encoded |-> r,
         id |-> Schema_schema_id(schema),
         decoded |-> strict_decode(<<"schema">>, r.val)]

\* a.schema_id() and b.schema_id(), with the encodings they commit to
SchemaId ==
    /\ fn = "schema_id" /\ pc = "ready"
    /\ output' = [a |-> SchemaOutput(input.a), b |-> SchemaOutput(input.b)]
    /\ pc' = "done"
    /\ UNCHANGED <<dbc_vars, fn, input, conc_vars>>

NextFn ==
    \/ StandaloneVerify
    \/ OutpointHash
    \/ StrictEncodeTrait
    \/ StrictEncode
    \/ StrictDecodeTrait
    \/ StrictDecode
    \/ RoundTrip
    \/ SchemaId

SpecFn == InitFn /\ [][NextFn]_vars

(* ----------------- commit_embed calls at the same time --------------- *)
\* Faulty variant: one set of counters for the whole process.
Global_cell_owner(t) == 1

\* keys_count, hashes_count and found are locals of the call that creates
\* them, and the closures of a call borrow the cells of that call.
cell_owner(t) == t

\* the key and hash nodes of a script in the order the traversal meets them
RECURSIVE visit_order(_)
visit_order(node) ==
    IF node.kind \in {"pk", "pk_h"}
    THEN <<node>>
    ELSE LET sub[i \in 0..Len(node.subs)] ==
                 IF i = 0 THEN <<>> ELSE sub[i - 1] \o visit_order(node.subs[i])
         IN  sub[Len(node.subs)]

\* the script the traversal returns: every key and hash node replaced, in
\* order, by what its closure call produced
RECURSIVE rebuild(_, _), rebuild_all(_, _)
rebuild(node, leaves) ==
    IF node.kind \in {"pk", "pk_h"}
    THEN [node |-> Head(leaves), rest |-> Tail(leaves)]
    ELSE LET r == rebuild_all(node.subs, leaves)
         IN  [node |-> [node EXCEPT !.subs = r.nodes], rest |-> r.rest]
rebuild_all(subs, leaves) ==
    IF subs = <<>>
    THEN [nodes |-> <<>>, rest |-> leaves]
    ELSE LET h == rebuild(Head(subs), leaves)
             t == rebuild_all(Tail(subs), h.rest)
         IN  [nodes |-> <<h.node>> \o t.nodes, rest |-> t.rest]

Threads == 1..NumThreads
ThreadScripts ==
    {Pk(1, TRUE), PkH(pubkey_hash(1, TRUE)), Leaf("older"),
     Comb("thresh", <<Pk(1, TRUE), Pk(2, TRUE)>>), Leaf("unparsable")}
ThreadMsgs == {1, 2}
ZeroCells == [keys_count |-> 0, hashes_count |-> 0, found |-> 0]
ThreadStart ==
    {[container |-> [script |-> s, pubkey |-> k], msg |-> m, pc |-> "start",
      ctx |-> None, todo |-> <<>>, done |-> <<>>, result |-> None] :
        s \in ThreadScripts, k \in Keys, m \in ThreadMsgs}

InitThreads ==
    /\ DbcIdle
    /\ pc = "ready"
    /\ fn = "none" /\ input = None /\ output = None
    /\ threads \in [Threads -> ThreadStart]
    /\ thread_cells = [t \in Threads |-> ZeroCells]

\* a call up to the traversal: the tweak, the three counters, the parse
ThreadBegin(t) ==
    /\ threads[t].pc = "start"
    /\ LET th == threads[t]
           o == cell_owner(t)
           original_hash == pubkey_hash(th.container.pubkey, TRUE)
           tweak == PubkeyCommitment_commit_to(th.container.pubkey, th.msg)
           old == thread_cells[o]
           fresh == [keys_count |-> RefCell_new(old.keys_count),
                     hashes_count |-> RefCell_new(old.hashes_count),
                     found |-> RefCell_new(old.found)]
       IN  IF ~tweak.ok
           THEN /\ threads' = [threads EXCEPT ![t].pc = "done",
                                              ![t].result = Err(tweak.err)]
                /\ UNCHANGED thread_cells
           ELSE /\ thread_cells' = [thread_cells EXCEPT ![o] = fresh]
                /\ IF th.container.script.kind = "unparsable"
                   THEN threads' = [threads EXCEPT
                            ![t].pc = "done",
                            ![t].result = Err("LockscriptParserError")]
                   ELSE threads' = [threads EXCEPT
                            ![t].pc = "walk",
                            ![t].ctx = [pubkey |-> th.container.pubkey,
                                        original_hash |-> original_hash,
                                        tweaked_pk |-> tweak.val.tweaked,
                                        tweaked_hash |->
                                            pubkey_hash(tweak.val.tweaked, TRUE)],
                            ![t].todo = visit_order(th.container.script)]
    /\ UNCHANGED <<dbc_vars, pc, fn, input, output>>

\* one closure call of the traversal
ThreadVisit(t) ==
    /\ threads[t].pc = "walk" /\ threads[t].todo # <<>>
    /\ LET th == threads[t]
           o == cell_owner(t)
           r == translate(Head(th.todo), thread_cells[o], th.ctx)
       IN  /\ threads' = [threads EXCEPT ![t].todo = Tail(@),
                                         ![t].done = Append(@, r.node)]
           /\ thread_cells' = [thread_cells EXCEPT ![o] = r.cells]
    /\ UNCHANGED <<dbc_vars, pc, fn, input, output>>

\* the match on the counters, once the traversal has returned
ThreadReturn(t) ==
    /\ threads[t].pc = "walk" /\ threads[t].todo = <<>>
    /\ LET th == threads[t]
           c == thread_cells[cell_owner(t)]
       IN  threads' = [threads EXCEPT
               ![t].pc = "done",
               ![t].result = classify(c.found, c.keys_count, c.hashes_count,
                                 rebuild(th.container.script, th.done).node)]
    /\ UNCHANGED <<dbc_vars, pc, fn, input, output, thread_cells>>

NextThreads ==
    \E t \in Threads :
        \/ ThreadBegin(t)
        \/ ThreadVisit(t)
        \/ ThreadReturn(t)

SpecThreads == InitThreads /\ [][NextThreads]_vars

(* ------------------------- what the claims read ------------------------ *)
RECURSIVE NodesOf(_)
NodesOf(node) ==
    {node} \cup UNION {NodesOf(node.subs[i]) : i \in DOMAIN node.subs}

Parsable(script) == script.kind # "unparsable"
KeyNodes(script) == {n \in NodesOf(script) : n.kind = "pk"}
HashNodes(script) == {n \in NodesOf(script) : n.kind = "pk_h"}
IsErr(r, e) == ~r.ok /\ r.err = e

\* the committed lockscript call, its script being one the parser accepts
LockscriptDone == scheme = "lockscript" /\ pc # "ready" /\ Parsable(container.script)
TweakOf(key, m) == PubkeyCommitment_commit_to(key, m)

\* key nodes holding the target point, hash nodes holding the hash of its
\* compressed encoding, hash nodes holding the hash of either encoding
MatchingKeys(c) == {n \in KeyNodes(c.script) : n.key = c.pubkey}
MatchingHashes(c) ==
    {n \in HashNodes(c.script) : n.hash = pubkey_hash(c.pubkey, TRUE)}
MatchingHashesAnyEncoding(c) ==
    {n \in HashNodes(c.script) :
        n.hash \in {pubkey_hash(c.pubkey, TRUE), pubkey_hash(c.pubkey, FALSE)}}

\* the script with the target's key nodes and the hash nodes in `hashes`
\* replaced by the tweaked key and its compressed hash, nothing else touched
RECURSIVE Substituted(_, _, _, _)
Substituted(node, target, hashes, tweaked) ==
    IF node.kind = "pk" /\ node.key = target THEN Pk(tweaked, TRUE)
    ELSE IF node.kind = "pk_h" /\ node.hash \in hashes
        THEN PkH(pubkey_hash(tweaked, TRUE))
    ELSE [node EXCEPT !.subs =
            [i \in DOMAIN node.subs |-> Substituted(node.subs[i], target, hashes, tweaked)]]

(* ------------------------------- C1 ------------------------------------ *)
\* C1: for every taproot commitment c and message m, reveal_verify(c, m) is
\* a boolean, true exactly when commit_to(c.get_original_container(), m)
\* returns Ok of a commitment equal to c, and false when it returns an Err.
C1_RevealVerifyIffRecommit ==
    (scheme = "taproot" /\ pc = "verified") =>
        LET r == TaprootCommitment_commit_to(
                     TaprootCommitment_get_original_container(commitment), vmsg)
        IN  /\ verdict \in BOOLEAN
            /\ verdict <=> (r.ok /\ r.val = commitment)
            /\ ~r.ok => verdict = FALSE

C1_Witness ==
    /\ scheme = "taproot" /\ pc = "verified" /\ verdict = TRUE
    /\ TaprootCommitment_commit_to(
           TaprootCommitment_get_original_container(commitment), vmsg).ok

(* ------------------------------- C2 ------------------------------------ *)
\* C2: a script with no public-key node and no public-key-hash node gives
\* Err(LockscriptContainsNoKeysOrHashes), for every target key and message
\* whose key tweak succeeds.
C2_NoKeysOrHashes ==
    (/\ LockscriptDone
     /\ KeyNodes(container.script) = {} /\ HashNodes(container.script) = {}
     /\ TweakOf(container.pubkey, msg).ok)
        => IsErr(result, "LockscriptContainsNoKeysOrHashes")

C2_Witness ==
    /\ LockscriptDone /\ pc = "committed"
    /\ container.script.kind = "thresh"
    /\ KeyNodes(container.script) = {} /\ HashNodes(container.script) = {}
    /\ IsErr(result, "LockscriptContainsNoKeysOrHashes")

(* ------------------------------- C3 ------------------------------------ *)
\* C3 as stated: a script with at least one public-key-hash node, no
\* public-key node and no hash node equal to the hash of container.pubkey
\* gives Err(LockscriptContainsUnknownHashesOnly).
C3_Stated ==
    (/\ LockscriptDone
     /\ HashNodes(container.script) # {} /\ KeyNodes(container.script) = {}
     /\ MatchingHashes(container) = {})
        => IsErr(result, "LockscriptContainsUnknownHashesOnly")

\* C3 amended: the same, for every target key and message whose key tweak
\* succeeds (a failed tweak is returned before the script is looked at).
C3_UnknownHashesOnly ==
    (/\ LockscriptDone
     /\ HashNodes(container.script) # {} /\ KeyNodes(container.script) = {}
     /\ MatchingHashes(container) = {}
     /\ TweakOf(container.pubkey, msg).ok)
        => IsErr(result, "LockscriptContainsUnknownHashesOnly")

C3_Witness ==
    /\ LockscriptDone /\ pc = "committed"
    /\ HashNodes(container.script) # {} /\ KeyNodes(container.script) = {}
    /\ \E n \in HashNodes(container.script) : n.hash \notin DummyHashes
    /\ IsErr(result, "LockscriptContainsUnknownHashesOnly")

(* ------------------------------- C4 ------------------------------------ *)
\* C4 as stated: a script with at least one public-key node, no key node
\* equal to container.pubkey and no hash node equal to its hash gives
\* Err(LockscriptKeyNotFound), whatever the number of public-key-hash nodes.
C4_Stated ==
    (/\ LockscriptDone
     /\ KeyNodes(container.script) # {}
     /\ MatchingKeys(container) = {} /\ MatchingHashes(container) = {})
        => IsErr(result, "LockscriptKeyNotFound")

\* C4 amended: the same, for every target key and message whose key tweak
\* succeeds.
C4_KeyNotFound ==
    (/\ LockscriptDone
     /\ KeyNodes(container.script) # {}
     /\ MatchingKeys(container) = {} /\ MatchingHashes(container) = {}
     /\ TweakOf(container.pubkey, msg).ok)
        => IsErr(result, "LockscriptKeyNotFound")

C4_Witness ==
    /\ LockscriptDone /\ pc = "committed"
    /\ KeyNodes(container.script) # {} /\ HashNodes(container.script) # {}
    /\ IsErr(result, "LockscriptKeyNotFound")

(* ------------------------------- C5 ------------------------------------ *)
\* C5 as stated: when a key node equals container.pubkey or a hash node
\* equals its hash, commit_embed returns Ok of the original script with
\* every such key node replaced by the tweaked key and every such hash node
\* by the tweaked key's hash, every other node left as it was.
C5_Stated ==
    (/\ LockscriptDone
     /\ MatchingKeys(container) \cup MatchingHashes(container) # {})
        => /\ result.ok
           /\ LET t == TweakOf(container.pubkey, msg)
              IN  t.ok /\ result.val =
                      Substituted(container.script, container.pubkey,
                                  {pubkey_hash(container.pubkey, TRUE)}, t.val.tweaked)

\* C5 amended: the same, for every target key and message whose key tweak
\* succeeds.
C5_AllOccurrencesSubstituted ==
    (/\ LockscriptDone
     /\ MatchingKeys(container) \cup MatchingHashes(container) # {}
     /\ TweakOf(container.pubkey, msg).ok)
        => /\ result.ok
           /\ result.val =
                  Substituted(container.script, container.pubkey,
                              {pubkey_hash(container.pubkey, TRUE)},
                              TweakOf(container.pubkey, msg).val.tweaked)

\* the target occurs in two branches, next to a node that is not the target
C5_Witness ==
    /\ LockscriptDone /\ pc = "committed" /\ result.ok
    /\ found >= 2
    /\ container.script.kind = "or"
    /\ KeyNodes(container.script) # MatchingKeys(container)
    /\ result.val # container.script

(* ------------------------------- C6 ------------------------------------ *)
\* what a verifier holding the container and the message works out by the
\* standard's procedure, without the committer's code: the key tweaked with
\* the message, and the container's script with every node that holds the
\* key, or the hash of its compressed encoding, holding the tweaked key or
\* its hash instead; the commitment verifies when there is such a node
\* and it is that script
StandardVerifies(c, cont, m) ==
    LET t == TweakOf(cont.pubkey, m)
    IN  /\ Parsable(cont.script)
        /\ t.ok
        /\ MatchingKeys(cont) \cup MatchingHashes(cont) # {}
        /\ c = Substituted(cont.script, cont.pubkey,
                           {pubkey_hash(cont.pubkey, TRUE)}, t.val.tweaked)

\* C6: whenever commit_embed(container, m) succeeds, verifying the
\* commitment it returned against the same container and the same m
\* returns true, and the commitment is the one the standard's procedure
\* gives a verifier for that container and that message.
C6_RoundTrip ==
    (scheme = "lockscript" /\ pc = "verified" /\ vmsg = msg)
        => /\ verdict = TRUE
           /\ commitment = result.val
           /\ StandardVerifies(commitment, container, msg)

\* a nested or/and/thresh policy holding the key and the hash of the key,
\* committed and verified with its message
C6_Witness ==
    /\ scheme = "lockscript" /\ pc = "verified" /\ vmsg = msg
    /\ container.script.kind = "or"
    /\ MatchingKeys(container) # {} /\ MatchingHashes(container) # {}
    /\ commitment # container.script
    /\ StandardVerifies(commitment, container, msg)
    /\ verdict = TRUE

(* ------------------------------- C7 ------------------------------------ *)
\* C7: a key node holding the target point in either encoding, and a hash
\* node holding the hash of either encoding of the target key, counts as a
\* match and is substituted; the substituted hash is the hash of the
\* compressed tweaked key.
C7_EitherEncodingMatches ==
    (/\ LockscriptDone
     /\ MatchingKeys(container) \cup MatchingHashesAnyEncoding(container) # {}
     /\ TweakOf(container.pubkey, msg).ok)
        => /\ result.ok
           /\ result.val =
                  Substituted(container.script, container.pubkey,
                              {pubkey_hash(container.pubkey, TRUE),
                               pubkey_hash(container.pubkey, FALSE)},
                              TweakOf(container.pubkey, msg).val.tweaked)

(* ------------------------------- C9 ------------------------------------ *)
\* C9: for a commitment made by commit_to(container, m1), reveal_verify
\* with a message m2 # m1 returns false, provided the key tweak does not
\* give m2 the tweaked key it gives m1.
C9_OtherMessageRejected ==
    LET made == TaprootCommitment_commit_to(container, msg)
        again == TweakOf(container.intermediate_key, vmsg)
    IN  (/\ scheme = "taproot" /\ pc = "verified"
         /\ made.ok /\ commitment = made.val
         /\ vmsg # msg
         /\ again.ok => again.val.tweaked # made.val.pubkey_commitment.tweaked)
            => verdict = FALSE

\* the other message tweaks the key too, to another point
C9_Witness ==
    LET made == TaprootCommitment_commit_to(container, msg)
        again == TweakOf(container.intermediate_key, vmsg)
    IN  /\ scheme = "taproot" /\ pc = "verified"
        /\ made.ok /\ commitment = made.val
        /\ vmsg # msg
        /\ again.ok /\ again.val.tweaked # made.val.pubkey_commitment.tweaked
        /\ verdict = FALSE

(* ------------------------------- C10 ----------------------------------- *)
\* C10: a successful TaprootCommitment::commit_to returns the container's
\* script_root unchanged and, as pubkey_commitment, the key-tweak
\* commitment of intermediate_key with the message; another script_root
\* gives the same pubkey_commitment.
C10_TaprootFrame ==
    (scheme = "taproot" /\ pc = "committed" /\ result.ok) =>
        LET k == TweakOf(container.intermediate_key, msg)
        IN  /\ result.val.script_root = container.script_root
            /\ k.ok /\ result.val.pubkey_commitment = k.val
            /\ \A r \in Roots :
                  LET other == TaprootCommitment_commit_to(
                                   [container EXCEPT !.script_root = r], msg)
                  IN  other.ok /\ other.val.pubkey_commitment = k.val

C10_Witness ==
    /\ scheme = "taproot" /\ pc = "committed" /\ result.ok
    /\ result.val.pubkey_commitment.tweaked # container.intermediate_key

(* ------------------------------- C8 ------------------------------------ *)
\* C8: a commit (lockscript, taproot, txout) with the container and the
\* message of an earlier commit returns what that one returned, the same
\* commitment or the same error, whatever was called in between.
C8_Deterministic ==
    (/\ ref.kind = "call" /\ pc = "committed"
     /\ ref.scheme = scheme /\ ref.container = container /\ ref.msg = msg)
        => /\ ref.result.ok = result.ok
           /\ IF result.ok THEN ref.result.val = result.val
                           ELSE ref.result.err = result.err

\* a lockscript call that found no key repeats an earlier call, another
\* call having been made in between
C8_Witness ==
    /\ ref.kind = "call" /\ pc = "committed" /\ ref.since >= 2
    /\ ref.scheme = scheme /\ ref.container = container /\ ref.msg = msg
    /\ scheme = "lockscript"
    /\ IsErr(result, "LockscriptContainsUnknownHashesOnly")

\* Claim C11: for every taproot commitment t and message m, t.reveal_verify(m)
\* returns what verifying t.pubkey_commitment against m as a key commitment
\* returns, the key commitment being recomputed from its stored original
\* key; the script root is carried over and never decides the outcome.
C11_VerifyCommutes ==
    (scheme = "taproot" /\ pc = "verified")
        => (verdict = PubkeyCommitment_reveal_verify(commitment.pubkey_commitment, vmsg))

\* a commitment under the second script root is accepted
C11_Witness ==
    /\ scheme = "taproot" /\ pc = "verified"
    /\ commitment.script_root = 2
    /\ verdict
    /\ PubkeyCommitment_reveal_verify(commitment.pubkey_commitment, vmsg)

\* the scriptPubkey commitment of the output container's script container
ScriptCommitOf ==
    ScriptPubkeyCommitment_commit_embed(
        container.script_container, msg,
        [keys_count |-> 0, hashes_count |-> 0, found |-> 0]).result

\* Claim C12: a successful TxoutCommitment::commit_embed(container, msg)
\* returns the container's value unchanged together with the scriptPubkey
\* commitment of container.script_container with msg, and container() of
\* the commitment returns its value unchanged together with the container
\* recovered from its script_commitment.
C12_TxoutFrame ==
    /\ (scheme = "txout" /\ pc \in {"committed", "recovered"} /\ result.ok)
          => /\ result.val.value = container.value
             /\ ScriptCommitOf.ok
             /\ result.val.script_commitment = ScriptCommitOf.val
    /\ (scheme = "txout" /\ pc = "recovered")
          => /\ recovered.value = result.val.value
             /\ recovered.script_container =
                    ScriptPubkeyCommitment_container(result.val.script_commitment)

\* an output of the second amount is committed and its container recovered
C12_Witness ==
    /\ scheme = "txout" /\ pc = "recovered"
    /\ container.value = 2
    /\ result.ok /\ result.val.value = 2
    /\ recovered.value = 2

\* the key commitment of the taproot container's intermediate key
KeyCommitOf == PubkeyCommitment_commit_to(container.intermediate_key, msg)

\* Claim C13: TaprootCommitment::commit_to returns Err(e) exactly when the
\* key commitment of intermediate_key returns Err(e), and
\* TxoutCommitment::commit_embed returns Err(e) exactly when the
\* scriptPubkey commitment of script_container returns Err(e); the error
\* is the same value and no composite commitment is returned with it.
C13_ErrorsPropagate ==
    /\ (scheme = "taproot" /\ pc \in {"committed", "recovered"})
          => /\ result.ok <=> KeyCommitOf.ok
             /\ ~KeyCommitOf.ok => /\ IsErr(result, KeyCommitOf.err)
                                   /\ DOMAIN result = {"ok", "err"}
    /\ (scheme = "txout" /\ pc \in {"committed", "recovered"})
          => /\ result.ok <=> ScriptCommitOf.ok
             /\ ~ScriptCommitOf.ok => /\ IsErr(result, ScriptCommitOf.err)
                                      /\ DOMAIN result = {"ok", "err"}

\* a taproot commit whose key tweak fails
C13_Witness ==
    /\ scheme = "taproot" /\ pc = "committed"
    /\ ~KeyCommitOf.ok
    /\ IsErr(result, "InvalidTweak")

\* Claim C14: for every taproot container c and message m on which commit_to
\* succeeds, get_original_container of the commitment equals c in both
\* fields, the intermediate key being the original key the key commitment
\* stores.
C14_ContainerRecovered ==
    (scheme = "taproot" /\ pc = "recovered")
        => /\ recovered.script_root = container.script_root
           /\ recovered.intermediate_key = container.intermediate_key
           /\ recovered.intermediate_key = result.val.pubkey_commitment.original

\* a container of the second root is recovered, its key having been tweaked
C14_Witness ==
    /\ scheme = "taproot" /\ pc = "recovered"
    /\ container.script_root = 2
    /\ result.val.pubkey_commitment.tweaked # container.intermediate_key
    /\ recovered = container

\* Claim C15: for every standalone commitment c and message m,
\* c.reveal_verify(m) is true exactly when commit_to(m) equals c, and
\* m.verify(c) returns the same boolean as c.reveal_verify(m).
C15_StandaloneVerify ==
    (fn = "verify" /\ pc = "done")
        => /\ output.reveal_verify <=> (SchemaId_commit_to(input.msg) = input.commitment)
           /\ output.verify = output.reveal_verify

\* a commitment is accepted for its own message
C15_Witness ==
    /\ fn = "verify" /\ pc = "done"
    /\ input.commitment = SchemaId_commit_to(input.msg)
    /\ output.reveal_verify /\ output.verify

\* Claim C16: the pre-image hashed by OutpointReveal::outpoint_hash is the
\* four bytes of the blinding factor, most significant first, then the raw
\* bytes of the txid, then the two bytes of the output index, most
\* significant first; equal reveals give equal hashes and reveals that
\* differ in any field give different pre-images.
C16_OutpointPreimage ==
    (fn = "outpoint_hash" /\ pc = "done")
        => LET a == input.a
               p == output.a.preimage
           IN  /\ Len(p) = 4 + TxidLen + 2
               /\ p[1] = (a.blinding \div 16777216) % 256
               /\ p[2] = (a.blinding \div 65536) % 256
               /\ p[3] = (a.blinding \div 256) % 256
               /\ p[4] = a.blinding % 256
               /\ SubSeq(p, 5, 4 + TxidLen) = a.txid
               /\ p[TxidLen + 5] = (a.vout \div 256) % 256
               /\ p[TxidLen + 6] = a.vout % 256
               /\ (input.a = input.b) => (output.a = output.b)
               /\ (input.a # input.b) => (output.a.preimage # output.b.preimage)

\* two reveals that differ only in the low byte of the blinding factor
C16_Witness ==
    /\ fn = "outpoint_hash" /\ pc = "done"
    /\ input.a.blinding = 1 /\ input.b.blinding = 0
    /\ input.a.txid = input.b.txid /\ input.a.vout = input.b.vout
    /\ input.a.vout = 256
    /\ output.a.preimage[4] = 1
    /\ output.a # output.b

\* Claim C17: the convenience function strict_decode fails with
\* DataNotEntirelyConsumed whenever the value decodes and at least one
\* byte of the input is left unread, and it returns the value only when
\* the bytes consumed are the whole input.
C17_LeftoverRejected ==
    (fn = "strict_decode" /\ pc = "done")
        => LET rv == T_strict_decode(input.ty, input.data, 0)
           IN  /\ (rv.result.ok /\ rv.pos < Len(input.data))
                     => IsErr(output, DataNotEntirelyConsumed)
               /\ output.ok
                     => /\ rv.result.ok
                        /\ rv.pos = Len(input.data)
                        /\ output.val = rv.result.val

\* an encoded byte string followed by one more byte
C17_Witness ==
    /\ fn = "strict_decode" /\ pc = "done"
    /\ input.ty = <<"bytes">>
    /\ input.data = <<1, 0, 13, 0>>
    /\ IsErr(output, DataNotEntirelyConsumed)

\* p is b with at least one byte cut off its end
StrictPrefix(p, b) == Len(p) < Len(b) /\ SubSeq(b, 1, Len(p)) = p
\* strings and byte collections
ByteCollectionTypes == {<<"string">>, <<"bytes">>, <<"vec", "u8">>}
\* the data is a strict prefix of the encoding of a value of the type
Truncated(ty, data) ==
    \E v \in ValuesOf(ty) :
        LET r == strict_encode(ty, v)
        IN  r.ok /\ StrictPrefix(data, r.val)

\* Claim C18: for every encodable string or byte collection v, strict_decode
\* of any strict prefix of strict_encode(v) returns an error, whether the
\* cut falls in the two-byte length field or in the payload.
C18_TruncatedRejected ==
    (/\ fn = "strict_decode" /\ pc = "done"
     /\ input.ty \in ByteCollectionTypes
     /\ Truncated(input.ty, input.data))
        => ~output.ok

\* a byte string announced as three bytes long with one byte of payload
C18_Witness ==
    /\ fn = "strict_decode" /\ pc = "done"
    /\ input.ty = <<"bytes">>
    /\ input.data = <<3, 0, 0>>
    /\ Truncated(input.ty, input.data)
    /\ IsErr(output, IoError)

\* Claim C19: None strict-encodes to the single byte 0, and Some(v) to the
\* byte 1 followed by the strict encoding of v; when encoding v fails,
\* encoding Some(v) fails.
C19_OptionEncoding ==
    (fn = "strict_encode" /\ pc = "done" /\ Head(input.ty) = "option")
        => IF Len(input.value) = 0
           THEN output.ok /\ output.val = <<0>>
           ELSE LET inner == strict_encode(Tail(input.ty), input.value[1])
                IN  IF inner.ok
                    THEN output.ok /\ output.val = <<1>> \o inner.val
                    ELSE ~output.ok

\* Some(65536usize): the value does not encode, and Some of it does not
C19_Witness ==
    /\ fn = "strict_encode" /\ pc = "done"
    /\ input.ty = <<"option", "usize">>
    /\ input.value = <<65536>>
    /\ IsErr(output, ExceedMaxItems(65536))

\* Claim C20: Option<T>::strict_decode on data whose first byte b is neither
\* 0 nor 1 returns Err(WrongOptionalEncoding(b)) without reading a T; a
\* first byte 0 gives None and a first byte 1 gives Some of the T decoded
\* from the bytes after it.
C20_OptionDecoding ==
    (/\ fn = "T::strict_decode" /\ pc = "done"
     /\ Head(input.ty) = "option" /\ Len(input.data) > 0)
        => LET b == input.data[1]
               t == T_strict_decode(Tail(input.ty), input.data, 1)
           IN  /\ b \notin {0, 1}
                     => /\ IsErr(output.result, WrongOptionalEncoding(b))
                        /\ output.pos = 1
               /\ b = 0 => /\ output.result.ok
                           /\ output.result.val = <<>>
                           /\ output.pos = 1
               /\ (b = 1 /\ t.result.ok)
                     => /\ output.result.ok
                        /\ output.result.val = <<t.result.val>>
                        /\ output.pos = t.pos
               /\ (b = 1 /\ ~t.result.ok)
                     => IsErr(output.result, t.result.err)

\* the first input of test_option_decode_vec
C20_Witness ==
    /\ fn = "T::strict_decode" /\ pc = "done"
    /\ input.ty = <<"option", "u8">>
    /\ input.data = <<2, 0, 0, 0>>
    /\ IsErr(output.result, WrongOptionalEncoding(2))
    /\ output.pos = 1

\* collections: what is counted, and the type of an item
CollectionTypes == {t \in CodecTypes :
                       Head(t) \in {"bytes", "string", "vec", "btreemap", "hashmap"}}
ItemType(ty) == IF Head(ty) \in {"bytes", "string"} THEN <<"u8">> ELSE Tail(ty)
\* the items of a collection in the order they are encoded
ItemsOf(ty, v) ==
    CASE Head(ty) = "btreemap" -> values(v)
      [] Head(ty) = "hashmap" -> values(collect_BTreeMap(iter(v)))
      [] OTHER -> v
\* the encodings of the items one after the other, from item i on
RECURSIVE ItemEncodingsOf(_, _, _, _)
ItemEncodingsOf(ty, items, lo, hi) ==
    IF lo > hi THEN <<>>
    ELSE IF lo = hi THEN strict_encode(ty, items[lo]).val
    ELSE LET mid == (lo + hi) \div 2
         IN  ItemEncodingsOf(ty, items, lo, mid)
                 \o ItemEncodingsOf(ty, items, mid + 1, hi)
ItemEncodings(ty, items, i) == ItemEncodingsOf(ty, items, i, Len(items))
AllItemsEncode(ty, items) ==
    \A i \in 1..Len(items) : strict_encode(ty, items[i]).ok
\* the error of the first item that does not encode
FirstItemError(ty, items) ==
    LET first == CHOOSE i \in 1..Len(items) :
                     /\ ~strict_encode(ty, items[i]).ok
                     /\ \A j \in 1..(i - 1) : strict_encode(ty, items[j]).ok
    IN  strict_encode(ty, items[first]).err
\* what follows the item count: the bytes themselves, or the items' encodings
Payload(ty, v) ==
    IF Head(ty) \in {"bytes", "string"} THEN v
    ELSE ItemEncodings(ItemType(ty), ItemsOf(ty, v), 1)

\* Claim C21, as stated: a collection of more than 65535 items fails to
\* encode with ExceedMaxItems(len), and one of at most 65535 items encodes
\* to its item count as two little-endian bytes followed by the encodings
\* of its items in order.
C21_Stated ==
    (fn = "strict_encode" /\ pc = "done" /\ input.ty \in CollectionTypes)
        => LET len == Len(input.value)
           IN  IF len > 65535
               THEN IsErr(output, ExceedMaxItems(len))
               ELSE /\ output.ok
                    /\ SubSeq(output.val, 1, 2) = <<len % 256, len \div 256>>

\* Claim C21, amended: a collection of more than 65535 items fails to encode
\* with ExceedMaxItems(len); one of at most 65535 items, each of which
\* encodes, encodes to its item count as two little-endian bytes followed
\* by the encodings of its items in order; and one of at most 65535 items
\* with an item that does not encode fails with the error of the first
\* such item.
C21_CountLimit ==
    (fn = "strict_encode" /\ pc = "done" /\ input.ty \in CollectionTypes)
        => LET len == Len(input.value)
               ty == input.ty
           IN  IF len > 65535
               THEN IsErr(output, ExceedMaxItems(len))
               ELSE IF Head(ty) \in {"bytes", "string"}
                       \/ AllItemsEncode(ItemType(ty), ItemsOf(ty, input.value))
               THEN /\ output.ok
                    /\ output.val = <<len % 256, len \div 256>>
                                        \o Payload(ty, input.value)
               ELSE IsErr(output,
                          FirstItemError(ItemType(ty), ItemsOf(ty, input.value)))

\* a Vec of exactly 65535 items is encoded: the count 0xFFFF, then the items
C21_Witness ==
    /\ fn = "strict_encode" /\ pc = "done"
    /\ input.ty = <<"vec", "u8">>
    /\ Len(input.value) = 65535
    /\ output.ok
    /\ Len(output.val) = 65537
    /\ output.val[1] = 255 /\ output.val[2] = 255
    /\ output.val[3] = 1 /\ output.val[65537] = 1

\* v encodes, and the encoding decodes to v
RoundTrips(ty, v) ==
    LET r == strict_encode(ty, v)
    IN  r.ok /\ strict_decode(ty, r.val).ok /\ strict_decode(ty, r.val).val = v
\* unsigned integers, strings, and Vec and Option over items that make the
\* round trip
C22Domain(ty, v) ==
    CASE Head(ty) \in {"u8", "u16", "usize", "string"} -> TRUE
      [] Head(ty) = "vec" ->
            Len(v) <= 65535 /\ \A i \in 1..Len(v) : RoundTrips(Tail(ty), v[i])
      [] Head(ty) = "option" -> Len(v) = 0 \/ RoundTrips(Tail(ty), v[1])
      [] OTHER -> FALSE

\* Claim C22, as stated: every unsigned integer, string, Vec<T> of at most
\* 65535 items and Option<T> value v, T making the round trip, encodes, and
\* its encoding decodes to v.
C22_Stated ==
    (fn = "round_trip" /\ pc = "done" /\ C22Domain(input.ty, input.value))
        => /\ output.encoded.ok
           /\ output.decoded.ok
           /\ output.decoded.val = input.value

\* Claim C22, amended: every u8 and u16, every usize of at most 65535, every
\* string of at most 65535 bytes, every Vec<T> of at most 65535 items and
\* every Option<T> value v, T making the round trip, encodes, and its
\* encoding decodes to v; a usize above 65535 and a string of more than
\* 65535 bytes do not encode.
C22_RoundTrip ==
    (fn = "round_trip" /\ pc = "done" /\ C22Domain(input.ty, input.value))
        => IF \/ (input.ty = <<"usize">> /\ input.value > 65535)
              \/ (input.ty = <<"string">> /\ Len(input.value) > 65535)
           THEN /\ ~output.encoded.ok
                /\ output.encoded.err.kind = "ExceedMaxItems"
                /\ ~output.decoded.ok
           ELSE /\ output.encoded.ok
                /\ output.decoded.ok
                /\ output.decoded.val = input.value

\* a Vec of two usize items, one of them above a single byte
C22_Witness ==
    /\ fn = "round_trip" /\ pc = "done"
    /\ input.ty = <<"vec", "usize">>
    /\ input.value = <<65535, 1>>
    /\ output.encoded.ok /\ output.encoded.val = <<2, 0, 255, 255, 1, 0>>
    /\ output.decoded.ok /\ output.decoded.val = <<65535, 1>>

MapTypes == {t \in CodecTypes : Head(t) \in {"btreemap", "hashmap"}}
\* the entries of a map that a decoder returned
DecodedEntries(ty, m) == IF Head(ty) = "hashmap" THEN m ELSE iter(m)

\* Claim C23: for every BTreeMap<usize, T> or HashMap<usize, T> value m of at
\* most 65535 entries, whatever its keys, the strict encoding of m decodes
\* to a map with the same keys and the same values.
C23_MapRoundTrip ==
    (/\ fn = "round_trip" /\ pc = "done"
     /\ input.ty \in MapTypes /\ Len(input.value) <= 65535)
        => /\ output.encoded.ok
           /\ output.decoded.ok
           /\ DecodedEntries(input.ty, output.decoded.val) = iter(input.value)

\* the encoding of one field of a schema
FieldEncoding(ty, v) == strict_encode(ty, v).val

\* Claim C24: the strict encoding of a Schema is the encodings of
\* field_types, seal_types, transitions, script_library and
\* script_extensions one after the other; strict_decode reads the fields
\* in that order; schema_id is a function of the encoded bytes, so two
\* schemas with the same encoding have the same SchemaId.
C24_SchemaId ==
    (fn = "schema_id" /\ pc = "done")
        => LET s == input.a
               bytes == output.a.encoded.val
               f1 == T_strict_decode(SchemaMap, bytes, 0)
               f2 == T_strict_decode(SchemaMap, bytes, f1.pos)
               f3 == T_strict_decode(SchemaMap, bytes, f2.pos)
               f4 == T_strict_decode(<<"vec", "u8">>, bytes, f3.pos)
               f5 == T_strict_decode(<<"u8">>, bytes, f4.pos)
           IN  /\ output.a.encoded.ok
               /\ bytes = FieldEncoding(SchemaMap, s.field_types)
                            \o FieldEncoding(SchemaMap, s.seal_types)
                            \o FieldEncoding(SchemaMap, s.transitions)
                            \o FieldEncoding(<<"vec", "u8">>, s.script_library)
                            \o FieldEncoding(<<"u8">>, s.script_extensions)
               /\ output.a.decoded.ok
               /\ output.a.decoded.val.field_types = f1.result.val
               /\ output.a.decoded.val.seal_types = f2.result.val
               /\ output.a.decoded.val.transitions = f3.result.val
               /\ output.a.decoded.val.script_library = f4.result.val
               /\ output.a.decoded.val.script_extensions = f5.result.val
               /\ output.a.id = SchemaId_commit_to(bytes)
               /\ (output.a.encoded.val = output.b.encoded.val)
                     => (output.a.id = output.b.id)

\* two schemas that differ in their field types and in their identifiers
C24_Witness ==
    /\ fn = "schema_id" /\ pc = "done"
    /\ input.a.field_types = <<[key |-> 5, val |-> 10]>>
    /\ input.b.field_types = <<>>
    /\ input.a.seal_types = <<[key |-> 1, val |-> 0]>>
    /\ SubSeq(output.a.encoded.val, 1, 6) = <<1, 0, 10, 1, 0, 0>>
    /\ output.a.id # output.b.id

\* what two results have in common when they are the same result
SameResult(a, b) ==
    /\ a.ok = b.ok
    /\ IF a.ok THEN a.val = b.val ELSE a.err = b.err

\* the call of a thread, made with no other call running
Alone(t) ==
    LockscriptCommitment_commit_embed(threads[t].container, threads[t].msg,
                                      ZeroCells)

\* C25: when calls of LockscriptCommitment::commit_embed run at the same
\* time, in any interleaving of their steps, every call that has returned
\* returned what it returns when it runs alone, and the counters it held
\* are the counts of its own script.
C25_OwnCounters ==
    \A t \in Threads :
        threads[t].pc = "done" =>
            /\ SameResult(threads[t].result, Alone(t).result)
            /\ PubkeyCommitment_commit_to(threads[t].container.pubkey,
                                          threads[t].msg).ok
                   => thread_cells[t] = Alone(t).cells

\* two calls have returned different outcomes, one a commitment and one
\* LockscriptKeyNotFound, after both had counted nodes
C25_Witness ==
    /\ threads[1].pc = "done" /\ threads[2].pc = "done"
    /\ threads[1].result.ok
    /\ ~threads[2].result.ok /\ threads[2].result.err = "LockscriptKeyNotFound"
    /\ thread_cells[1].keys_count > 0 /\ thread_cells[2].keys_count > 0
    /\ thread_cells[1].found > 0 /\ thread_cells[2].found = 0

\* the usize a value's encoder returns when it succeeds
SizeOf(ty, v) == T_strict_encode(ty, v, <<>>).result.val
\* the sizes of the items of a collection added up, from item i on
RECURSIVE SumOfSizesOf(_, _, _, _)
SumOfSizesOf(ty, items, lo, hi) ==
    IF lo > hi THEN 0
    ELSE IF lo = hi THEN SizeOf(ty, items[lo])
    ELSE LET mid == (lo + hi) \div 2
         IN  SumOfSizesOf(ty, items, lo, mid) + SumOfSizesOf(ty, items, mid + 1, hi)
SumOfSizes(ty, items, i) == SumOfSizesOf(ty, items, i, Len(items))

\* C26: the usize a successful StrictEncode::strict_encode returns is the
\* number of bytes it wrote to the writer: 2 plus the payload length for a
\* byte string or a string, 2 plus the sum of the item sizes for a Vec or a
\* map, 1 for None and 1 plus the size of v for Some(v).
C26_BytesWritten ==
    (fn = "T::strict_encode" /\ pc = "done" /\ output.result.ok)
        => LET ty == input.ty
               v == input.value
               n == output.result.val
           IN  /\ n = Len(output.e)
               /\ Head(ty) \in {"bytes", "string"} => n = 2 + Len(v)
               /\ Head(ty) \in {"vec", "btreemap", "hashmap"}
                      => n = 2 + SumOfSizes(ItemType(ty), ItemsOf(ty, v), 1)
               /\ Head(ty) = "option"
                      => n = IF v = <<>> THEN 1 ELSE 1 + SizeOf(Tail(ty), v[1])

\* a Vec of two usize items was encoded: six bytes written, six returned
C26_Witness ==
    /\ fn = "T::strict_encode" /\ pc = "done"
    /\ input.ty = <<"vec", "usize">> /\ Len(input.value) = 2
    /\ output.result.ok /\ output.result.val = 6 /\ Len(output.e) = 6

\* C27: the trait method T::strict_decode reads only the bytes T needs: what
\* it returns is what it returns on the bytes it read alone, whatever
\* follows them, and it succeeds with bytes left unread; a usize is read as
\* two little-endian bytes, so its value is within 0..65535; the
\* convenience function strict_decode rejects the same data exactly when
\* bytes are left.
C27_ReadsWhatItNeeds ==
    (fn = "T::strict_decode" /\ pc = "done" /\ output.result.ok)
        => LET ty == input.ty
               d == input.data
               read == SubSeq(d, 1, output.pos)
               alone == T_strict_decode(ty, read, 0)
               whole == strict_decode(ty, d)
           IN  /\ output.pos <= Len(d)
               /\ alone.result.ok /\ alone.result.val = output.result.val
               /\ alone.pos = output.pos
               /\ ty = <<"usize">>
                      => /\ output.pos = 2
                         /\ output.result.val = d[1] + 256 * d[2]
                         /\ output.result.val \in 0..U16Max
               /\ ty = <<"option", "usize">> /\ output.result.val # <<>>
                      => output.result.val[1] \in 0..U16Max
               /\ IF output.pos = Len(d)
                  THEN whole.ok /\ whole.val = output.result.val
                  ELSE IsErr(whole, DataNotEntirelyConsumed)

\* Option<usize> decoded from the byte 1 and eight bytes 0xFF: Some(0xFFFF),
\* with six bytes left unread
C27_Witness ==
    /\ fn = "T::strict_decode" /\ pc = "done"
    /\ input.ty = <<"option", "usize">>
    /\ input.data = <<1, 255, 255, 255, 255, 255, 255, 255, 255>>
    /\ output.result.ok /\ output.result.val = <<65535>>
    /\ output.pos = 3

\* C28: the strict encoding of a HashMap<usize, T> does not depend on the
\* order in which the map iterates its entries: it is the strict encoding
\* of the BTreeMap that holds the same entries, the entry count followed
\* by the values in ascending key order, so HashMaps with equal entries
\* encode to the same bytes.
C28_OrderIndependent ==
    (fn = "strict_encode" /\ pc = "done" /\ Head(input.ty) = "hashmap")
        => LET ty == input.ty
               v == input.value
               btree == collect_BTreeMap(iter(v))
               same == strict_encode(<<"btreemap">> \o Tail(ty), btree)
           IN  /\ Ascending(btree) /\ iter(btree) = iter(v)
               /\ SameResult(output, same)
               /\ output.ok
                      => output.val = to_le_bytes(Len(v), 2)
                                          \o ItemEncodings(Tail(ty), values(btree), 1)
               /\ \A w \in ValuesOf(ty) :
                      iter(w) = iter(v) => SameResult(strict_encode(ty, w), output)

\* a HashMap that iterates the key 5 before the key 1 was encoded: the
\* value under the key 1 comes first
C28_Witness ==
    /\ fn = "strict_encode" /\ pc = "done"
    /\ input.ty = <<"hashmap", "u8">>
    /\ input.value = <<[key |-> 5, val |-> 0], [key |-> 1, val |-> 255]>>
    /\ output.ok /\ output.val = <<2, 0, 255, 0>>

\* the three errors of the match on the counters
TaxonomyErrors ==
    {"LockscriptContainsNoKeysOrHashes", "LockscriptContainsUnknownHashesOnly",
     "LockscriptKeyNotFound"}
\* what the match on the counters gives for a parsable script: the counts
\* depend on the script, the key and the key's hash, not on the tweak
MatchOf(c) ==
    LET ctx == [pubkey |-> c.pubkey,
                original_hash |-> pubkey_hash(c.pubkey, TRUE),
                tweaked_pk |-> c.pubkey,
                tweaked_hash |-> pubkey_hash(c.pubkey, TRUE)]
        r == translate(c.script, ZeroCells, ctx)
    IN  classify(r.cells.found, r.cells.keys_count, r.cells.hashes_count,
                 c.script)

\* C29: in LockscriptCommitment::commit_embed the key tweak comes before
\* the traversal: when it fails the call returns the tweak's error and no
\* node is counted, whatever the script would have given; a script that
\* does not parse returns the parse error, not one of the three errors of
\* the match; so one of those three errors is returned only after the
\* tweak succeeded and the script parsed.
C29_ErrorPrecedence ==
    (scheme = "lockscript" /\ pc = "committed")
        => LET tweak == PubkeyCommitment_commit_to(container.pubkey, msg)
           IN  /\ ~tweak.ok
                      => /\ IsErr(result, tweak.err)
                         /\ keys_count = 0 /\ hashes_count = 0 /\ found = 0
               /\ (tweak.ok /\ ~Parsable(container.script))
                      => IsErr(result, "LockscriptParserError")
               /\ (~result.ok /\ result.err \in TaxonomyErrors)
                      => /\ tweak.ok /\ Parsable(container.script)
                         /\ IsErr(MatchOf(container), result.err)

\* the tweak failed for a script in which the key is not found: the
\* tweak's error was returned
C29_Witness ==
    /\ scheme = "lockscript" /\ pc = "committed"
    /\ ~PubkeyCommitment_commit_to(container.pubkey, msg).ok
    /\ Parsable(container.script)
    /\ IsErr(MatchOf(container), "LockscriptKeyNotFound")
    /\ IsErr(result, "InvalidTweak")
    /\ keys_count = 0

\* two schemas that differ in nothing but the keys of their maps
SameValues(a, b) ==
    /\ values(a.field_types) = values(b.field_types)
    /\ values(a.seal_types) = values(b.seal_types)
    /\ values(a.transitions) = values(b.transitions)
    /\ a.script_library = b.script_library
    /\ a.script_extensions = b.script_extensions

\* C30: the keys of a map are not part of its strict encoding: a
\* BTreeMap<usize, T> encodes as its entry count followed by its values in
\* ascending key order, and decoding gives the values the keys 0..n-1; two
\* schemas whose maps hold the same values in the same order, under
\* whatever keys, have the same strict encoding and the same SchemaId.
C30_KeysNotEncoded ==
    /\ (/\ fn = "round_trip" /\ pc = "done"
        /\ Head(input.ty) = "btreemap" /\ output.encoded.ok)
           => LET ty == input.ty
                  v == input.value
              IN  /\ Ascending(v)
                  /\ output.encoded.val
                         = to_le_bytes(Len(v), 2)
                               \o ItemEncodings(Tail(ty), values(v), 1)
                  /\ \A w \in ValuesOf(ty) :
                         values(w) = values(v)
                             => SameResult(strict_encode(ty, w), output.encoded)
                  /\ output.decoded.ok
                  /\ values(output.decoded.val) = values(v)
                  /\ \A i \in 1..Len(v) : output.decoded.val[i].key = i - 1
    /\ (fn = "schema_id" /\ pc = "done" /\ SameValues(input.a, input.b))
           => /\ output.a.encoded.ok /\ output.b.encoded.ok
              /\ output.a.encoded.val = output.b.encoded.val
              /\ output.a.id = output.b.id

\* two schemas with field_types {5 => 10} and {0 => 10}, seal_types
\* {1 => 0} and {0 => 0}: different schemas, one SchemaId
C30_Witness ==
    /\ fn = "schema_id" /\ pc = "done"
    /\ input.a.field_types = <<[key |-> 5, val |-> 10]>>
    /\ input.b.field_types = <<[key |-> 0, val |-> 10]>>
    /\ input.a.seal_types = <<[key |-> 1, val |-> 0]>>
    /\ input.b.seal_types = <<[key |-> 0, val |-> 0]>>
    /\ SameValues(input.a, input.b)
    /\ input.a # input.b
    /\ output.a.encoded.val = output.b.encoded.val
    /\ output.a.id = output.b.id

====
